---- MODULE Spec2Model ----
(***************************************************************************)
(* The Ralph loop job engine of openclaw-codex-ralph: the PRD file, the    *)
(* durable iteration log, the progress record, the job table and the       *)
(* background loop task of each job (executeRalphLoopAsync).  The task     *)
(* takes one step per stretch of code between two points where it is       *)
(* suspended and the tool handlers can run: the await of the context of a  *)
(* story (buildIterationContext awaits an import), the await of the agent  *)
(* run and validation, and the await of the outcome handler (which awaits  *)
(* an import after its writes).  When buildIterationContext returns before *)
(* it awaits anything (no PRD, no pending story) its promise is already    *)
(* resolved and the task goes on within the same step.                     *)
(***************************************************************************)
EXTENDS Integers, Sequences, FiniteSets, TLC

\* ------------------------------------------------------------------ bounds
MaxJobs == 1            \* jobs ever started
MaxTotalPasses == 3     \* sum of maxIterations over the started jobs
MaxPriorFailures == 3   \* failed rows an earlier session left in the log
MaxStories == 2         \* stories ever added to the PRD
MaxPriority == 2        \* priorities are 1..MaxPriority
MaxEdits == 1           \* ralph_edit_story calls

\* the same, for runs whose verification warns and whose stories have issues
WarningsPasses == 2

\* getNextStory on its own
MaxSelectStories == 3   \* stories in the PRD
MaxSelectPriority == 3  \* priorities are 1..MaxSelectPriority

\* the same, for runs followed to their end
LiveJobs == 1
LivePasses == 3

\* the same, for loop runs and ralph_iterate calls in one working directory
RetryPasses == 4
MaxIterateCalls == 1

\* the same, for agents that outlive the hard timeout of their runs
OrphanPasses == 2

\* a run of the synchronous loop
SyncPasses == 3

\* runs of two jobs with the replies of ralph_loop_cancel
CancelPasses == 2

\* the same, for runs of several jobs side by side
SeveralJobs == 2
SeveralJobsPasses == 3

\* a StoryRetryTracker on its own
MaxAttempts == 4        \* recordAttempt calls
MaxResets == 1          \* reset calls
MaxRetriesChoice == 3   \* the tracker is built with maxRetries in 1..MaxRetriesChoice
MaxFragments == 2       \* pieces in an output string handed to categorizeFailure
MaxChildren == 2        \* child processes spawned
MaxHostSignals == 2     \* SIGTERM / SIGINT received by the host
MaxOutput == 3          \* pieces of output an agent process writes
MaxChunk == 2           \* pieces of output in one data event
MaxTime == 720000       \* ms of an agent run that are followed

\* ------------------------------------------------------- program constants
DEFAULT_MAX_RETRIES == 3
StallTimeoutMs == 120000
HardTimeoutMs == 600000

StoryIds == 1..MaxStories
ChildIds == 1..MaxChildren
Priorities == 1..MaxPriority

VARIABLES
  prd,          \* prd.json of the working directory: NoPRD or [stories |-> <<Story>>]
  storySeq,     \* number of stories ever created (their ids are fresh)
  iterLog,      \* .ralph-iterations.jsonl, a sequence of IterationLogEntry
  progress,     \* progress.txt, a sequence of entries
  activeJobs,   \* the job table: job id -> LoopJob
  task,         \* job id -> the locals and position of its loop task
  agentSpawns,  \* job id -> agent processes spawned so far for the job
  cancelSeen,   \* job id -> NoCancel or what the job had done when its cancel was accepted
  startedOn,    \* job id -> the pending stories of the PRD startLoopJob found (-1: no PRD)
  edits,        \* the ralph_edit_story calls so far: story, passes, jobs started before
  limit,        \* how far a run goes: jobs, passes, earlier failures, stories, edits,
                \* ralph_iterate calls, and whether runs with WARN checks, stories
                \* with issues and agents that outlive the hard timeout are followed
  liveTracker,  \* a StoryRetryTracker: [maxRetries, attempts: story id -> counts]
  scannedLog,   \* the log rows of the attempts recorded in liveTracker
  resetCalls,   \* reset calls made on liveTracker
  output,       \* the validation output handed to categorizeFailure
  failCat,      \* the category categorizeFailure returned for it
  children,     \* processRegistry.children: the registered child processes
  child,        \* child id -> its ChildProcess object and the signals it was sent
  killTimers,   \* pending 5 s timers of killAll
  signalLog,    \* per host signal: who was registered, who outlived the grace period
  now,          \* the clock of one agent run, in ms since runCodexIteration was called
  stallTimer,   \* monitorProgress: when the pending stall timer is due, or NoTimer
  listening,    \* monitorProgress: its data listener is attached
  buffer,       \* monitorProgress: the incomplete last line
  stallLog,     \* monitorProgress: the calls of resetStallTimer and of onStall, with times
  stdout,       \* runCodexIteration: the output captured so far
  hardTimer,    \* runCodexIteration: when the 10 minute timer is due, or NoTimer
  exitCode,     \* the exit code of the agent process
  result,       \* what the promise of runCodexIteration was resolved with
  fired,        \* close, error, stall kill, timeout: those that have happened, in order
  verifyInput,  \* the VerificationInput handed to verifyOutput, with the diff it reads
  verification, \* the VerificationResult verifyOutput returned for it
  selectPrd,    \* the PRD handed to getNextStory
  selected,     \* the story getNextStory returned for it
  iterate,      \* the locals and position of the ralph_iterate call under way
  iterateCalls, \* ralph_iterate calls that have spawned an agent
  agentsAlive,  \* job id -> agent processes spawned for the job that have not exited
  syncLoop,     \* the locals, position and LoopResult of a run of executeRalphLoopSync
  cancelReply   \* what the last call of ralph_loop_cancel returned

loopVars == <<prd, storySeq, iterLog, progress, activeJobs, task, agentSpawns, cancelSeen,
              startedOn, edits, limit>>

\* the variables of the other components, which the job engine leaves alone
trackerVars == <<liveTracker, scannedLog, resetCalls>>
categorizeVars == <<output, failCat>>
processVars == <<children, child>>
registryVars == <<killTimers, signalLog>>
monitorVars == <<stallTimer, listening, buffer, stallLog>>
runVars == <<now, monitorVars, stdout, hardTimer, exitCode, result, fired>>
verifyVars == <<verifyInput, verification>>
selectVars == <<selectPrd, selected>>
iterateVars == <<iterate, iterateCalls>>
componentVars == <<trackerVars, categorizeVars, processVars, registryVars, runVars,
                   verifyVars, selectVars>>
standaloneVars == <<componentVars, syncLoop>>
otherVars == <<standaloneVars, iterateVars, agentsAlive, cancelReply>>

vars == <<loopVars, otherVars>>

\* what the actions of one component leave alone
notTrackerVars ==
  <<loopVars, iterateVars, agentsAlive, syncLoop, cancelReply, categorizeVars, processVars, registryVars, runVars, verifyVars, selectVars>>
notCategorizeVars ==
  <<loopVars, iterateVars, agentsAlive, syncLoop, cancelReply, trackerVars, processVars, registryVars, runVars, verifyVars, selectVars>>
notRegistryVars ==
  <<loopVars, iterateVars, agentsAlive, syncLoop, cancelReply, trackerVars, categorizeVars, runVars, verifyVars, selectVars>>
notRunVars ==
  <<loopVars, iterateVars, agentsAlive, syncLoop, cancelReply, trackerVars, categorizeVars, registryVars, verifyVars, selectVars>>
notVerifyVars ==
  <<loopVars, iterateVars, agentsAlive, syncLoop, cancelReply, trackerVars, categorizeVars, processVars, registryVars, runVars, selectVars>>
notSelectVars ==
  <<loopVars, iterateVars, agentsAlive, syncLoop, cancelReply, trackerVars, categorizeVars, processVars, registryVars, runVars, verifyVars>>

JobIds == 1..limit.jobs

\* ------------------------------------------------------------------- values
NoPRD == [stories |-> <<>>, exists |-> FALSE]
NoStory == [id |-> 0, priority |-> 0, passes |-> FALSE]
NoError == [kind |-> "undefined", n |-> 0]
NoResult == [storyId |-> 0, success |-> FALSE, validationPassed |-> FALSE,
             verificationPassed |-> "undefined", commitHash |-> "undefined",
             codexOutput |-> "undefined", toolCalls |-> 0, filesModified |-> 0,
             verificationWarnings |-> <<"undefined">>, issueCommented |-> "undefined"]
NoCancel == [seen |-> FALSE, spawns |-> 0, results |-> 0, pc |-> "none", i |-> 0]

\* ---------------------------------------------------------- pure functions
SeqIndexes(s) == 1..Len(s)

\* prd.stories.filter((s) => !s.passes).length
Remaining(p) == Cardinality({k \in SeqIndexes(p.stories) : ~p.stories[k].passes})

GetNextStoryIndex_IgnoresPasses(p) ==
  LET all == SeqIndexes(p.stories)
  IN  IF all = {} THEN 0
      ELSE CHOOSE k \in all :
             \A m \in all :
               \/ p.stories[k].priority < p.stories[m].priority
               \/ (p.stories[k].priority = p.stories[m].priority /\ k <= m)

\* a story put before the stories of its own priority
RECURSIVE InsertByPriority_BeforeEquals(_, _, _)
InsertByPriority_BeforeEquals(p, sorted, k) ==
  IF sorted = <<>> THEN <<k>>
  ELSE IF p.stories[k].priority - p.stories[Head(sorted)].priority <= 0
    THEN <<k>> \o sorted
  ELSE <<Head(sorted)>> \o InsertByPriority_BeforeEquals(p, Tail(sorted), k)

\* Array.prototype.sort with (a, b) => a.priority - b.priority is stable: a
\* story goes behind those already placed that do not compare greater
RECURSIVE InsertByPriority(_, _, _)
InsertByPriority(p, sorted, k) ==
  IF sorted = <<>> THEN <<k>>
  ELSE IF p.stories[k].priority - p.stories[Head(sorted)].priority < 0
    THEN <<k>> \o sorted
  ELSE <<Head(sorted)>> \o InsertByPriority(p, Tail(sorted), k)

\* .sort(...) of a list of stories, given by their indexes in p.stories
RECURSIVE SortByPriority(_, _, _)
SortByPriority(p, sorted, rest) ==
  IF rest = <<>> THEN sorted
  ELSE SortByPriority(p, InsertByPriority(p, sorted, Head(rest)), Tail(rest))

\* getNextStory: the pending stories, sorted by priority, first one or none:
\* the index in p.stories, 0 for null
GetNextStoryIndex(p) ==
  LET pending == SelectSeq([k \in SeqIndexes(p.stories) |-> k],
                           LAMBDA k : ~p.stories[k].passes)
      sorted  == SortByPriority(p, <<>>, pending)
  IN  IF sorted = <<>> THEN 0 ELSE sorted[1]

getNextStory(p) ==
  IF GetNextStoryIndex(p) = 0 THEN NoStory ELSE p.stories[GetNextStoryIndex(p)]

LogFailCount_AnyOutcome(log, storyId) ==
  Cardinality({k \in SeqIndexes(log) : log[k].storyId = storyId})

\* rows of the iteration log with this story id and success = false
LogFailCount(log, storyId) ==
  Cardinality({k \in SeqIndexes(log) : log[k].storyId = storyId /\ ~log[k].success})

\* shouldSkipStory: false when the log file does not exist (nothing was ever
\* appended), else failCount >= maxRetries
shouldSkipStory(storyId, log, maxRetries) ==
  IF log = <<>> THEN FALSE ELSE LogFailCount(log, storyId) >= maxRetries

\* this.attempts.get(storyId) || { attempts: 0, failures: 0 }
StatsOrZero(attempts, storyId) ==
  IF storyId \in DOMAIN attempts THEN attempts[storyId]
  ELSE [attempts |-> 0, failures |-> 0]

recordAttempt_FailureOnly(attempts, storyId, success) ==
  LET current == StatsOrZero(attempts, storyId)
  IN  [s \in DOMAIN attempts \cup {storyId} |->
         IF s = storyId
         THEN [attempts |-> IF success THEN current.attempts + 1 ELSE current.attempts,
               failures |-> IF success THEN current.failures ELSE current.failures + 1]
         ELSE attempts[s]]

\* StoryRetryTracker.recordAttempt, on the map this.attempts
recordAttempt(attempts, storyId, success) ==
  LET current == StatsOrZero(attempts, storyId)
  IN  [s \in DOMAIN attempts \cup {storyId} |->
         IF s = storyId
         THEN [attempts |-> current.attempts + 1,
               failures |-> IF success THEN current.failures ELSE current.failures + 1]
         ELSE attempts[s]]

shouldSkip_Strict(attempts, storyId, maxRetries) ==
  storyId \in DOMAIN attempts /\ attempts[storyId].failures > maxRetries

\* StoryRetryTracker.shouldSkip
shouldSkip(attempts, storyId, maxRetries) ==
  storyId \in DOMAIN attempts /\ attempts[storyId].failures >= maxRetries

\* StoryRetryTracker.getFailCount: stats?.failures || 0
getFailCount(attempts, storyId) ==
  IF storyId \in DOMAIN attempts THEN attempts[storyId].failures ELSE 0

\* StoryRetryTracker.reset(storyId): this.attempts.delete(storyId)
reset(attempts, storyId) == [s \in DOMAIN attempts \ {storyId} |-> attempts[s]]

\* new StoryRetryTracker(...): this.attempts = new Map()
NewTracker == <<>>

\* no tracker under study: one as the loop builds it, untouched
TrackerIdle ==
  /\ liveTracker = [maxRetries |-> DEFAULT_MAX_RETRIES, attempts |-> NewTracker]
  /\ scannedLog = <<>>
  /\ resetCalls = 0

\* categorizeFailure not called yet
NotCategorized == "none"

\* no output under study
CategorizeIdle == output = <<>> /\ failCat = NotCategorized

\* a ChildProcess that was not spawned yet
NoProcess == [state |-> "none", killed |-> FALSE, signals |-> <<>>]

\* no child process, no host signal
RegistryIdle ==
  /\ children = {} /\ child = [c \in ChildIds |-> NoProcess]
  /\ killTimers = 0 /\ signalLog = <<>>

\* a timer that is not pending: never set, cleared, or fired
NoTimer == -1

\* the process has not ended; code === null (ended by a signal); a failed spawn
NoExitCode == 256
NullCode == -1
ErrnoCode == -2

\* the promise of runCodexIteration is pending
Unsettled == [settledBy |-> "nothing"]

\* no agent run under study
RunIdle ==
  /\ now = 0 /\ stallTimer = NoTimer /\ listening = FALSE /\ buffer = <<>>
  /\ stallLog = <<>> /\ stdout = <<>> /\ hardTimer = NoTimer
  /\ exitCode = NoExitCode /\ result = Unsettled /\ fired = <<>>

\* verifyOutput not called yet
NotVerified == [passed |-> FALSE, checks |-> <<>>, warnings |-> <<>>,
                rejectReason |-> <<"not verified">>, requiresLLMReview |-> FALSE]

\* no VerificationInput: verifyOutput is not under study
NoInput == [story |-> "none"]

VerifyIdle == verifyInput = NoInput /\ verification = NotVerified

\* getNextStory not called yet
NotSelected == [id |-> -1, priority |-> 0, passes |-> FALSE]

\* no PRD under study
SelectIdle == selectPrd = [stories |-> <<>>, exists |-> FALSE] /\ selected = NotSelected

\* no ralph_iterate call under way
NoIterate == [pc |-> "idle", ctx |-> [kind |-> "none", prd |-> NoPRD, story |-> 0],
              run |-> NoResult, validation |-> [success |-> FALSE, output |-> <<>>]]

\* ralph_iterate is never called
IterateIdle == iterate = NoIterate /\ iterateCalls = 0

\* no agent process was spawned yet
NoAgents == agentsAlive = <<>>

\* the LoopResult executeRalphLoopSync starts with
NewLoopResult ==
  [success |-> FALSE, iterationsRun |-> 0, storiesCompleted |-> 0, remainingStories |-> 0,
   results |-> <<>>, stoppedReason |-> "complete"]

\* executeRalphLoopSync not called
NoSync == [pc |-> "idle", i |-> 0, maxIterations |-> 0, stopOnFailure |-> FALSE,
           ctx |-> [kind |-> "none", prd |-> NoPRD, story |-> 0],
           run |-> NoResult, validation |-> [success |-> FALSE, output |-> <<>>],
           loopResult |-> NewLoopResult]

SyncIdle == syncLoop = NoSync

\* ralph_loop_cancel not called
NoReply == [jobId |-> 0, error |-> "none"]

CancelIdle == cancelReply = NoReply

\* buildIterationContext: readPRD, getNextStory
buildIterationContext(p) ==
  IF ~p.exists THEN [kind |-> "error", prd |-> NoPRD, story |-> 0]
  ELSE IF GetNextStoryIndex(p) = 0 THEN [kind |-> "allDone", prd |-> p, story |-> 0]
  ELSE [kind |-> "story", prd |-> p, story |-> GetNextStoryIndex(p)]


\* ------------------------------------------------------------- strings
\* A string is the sequence of its characters.
UpperCase ==
  <<"A","B","C","D","E","F","G","H","I","J","K","L","M",
    "N","O","P","Q","R","S","T","U","V","W","X","Y","Z">>
LowerCase ==
  <<"a","b","c","d","e","f","g","h","i","j","k","l","m",
    "n","o","p","q","r","s","t","u","v","w","x","y","z">>

\* String.prototype.toLowerCase
toLowerCase(s) ==
  [i \in 1..Len(s) |->
     IF \E k \in 1..Len(UpperCase) : UpperCase[k] = s[i]
       THEN LowerCase[CHOOSE k \in 1..Len(UpperCase) : UpperCase[k] = s[i]]
       ELSE s[i]]

\* String.prototype.includes
includes(s, p) ==
  \E i \in 0..(Len(s) - Len(p)) : SubSeq(s, i + 1, i + Len(p)) = p

\* ------------------------------------------------- the output verifier
\* String.prototype.endsWith
endsWith(s, p) == Len(p) <= Len(s) /\ SubSeq(s, Len(s) - Len(p) + 1, Len(s)) = p

WhiteSpace == {" ", "\t", "\n"}

\* String.prototype.trim
RECURSIVE trimStart(_)
trimStart(s) ==
  IF s # <<>> /\ Head(s) \in WhiteSpace THEN trimStart(Tail(s)) ELSE s

RECURSIVE trimEnd(_)
trimEnd(s) ==
  IF s # <<>> /\ s[Len(s)] \in WhiteSpace THEN trimEnd(SubSeq(s, 1, Len(s) - 1)) ELSE s

trim(s) == trimEnd(trimStart(s))

CONFIG_EXTENSIONS ==
  { <<".", "j", "s", "o", "n">>, <<".", "y", "m", "l">>, <<".", "y", "a", "m", "l">>, <<".", "t", "o", "m", "l">>, <<".", "i", "n", "i">>, <<".", "e", "n", "v">>,
    <<".", "c", "o", "n", "f", "i", "g", ".", "j", "s">>, <<".", "c", "o", "n", "f", "i", "g", ".", "t", "s">>, <<".", "c", "o", "n", "f", "i", "g", ".", "m", "j", "s">>, <<".", "c", "o", "n", "f", "i", "g", ".", "c", "j", "s">> }

DOC_EXTENSIONS == { <<".", "m", "d">>, <<".", "m", "d", "x">>, <<".", "t", "x", "t">>, <<".", "r", "s", "t">> }

isConfigOrDocFile(file) ==
  \E ext \in CONFIG_EXTENSIONS \cup DOC_EXTENSIONS : endsWith(toLowerCase(file), ext)

isTestFile(file) ==
  \/ includes(toLowerCase(file), <<".", "t", "e", "s", "t", ".">>)
  \/ includes(toLowerCase(file), <<".", "s", "p", "e", "c", ".">>)
  \/ includes(toLowerCase(file), <<"_", "_", "t", "e", "s", "t", "s", "_", "_">>)

ConfigStoryWords ==
  { <<"c", "o", "n", "f", "i", "g">>, <<"b", "u", "i", "l", "d">>, <<"s", "e", "t", "u", "p">>, <<"c", "i", "/", "c", "d">>, <<"p", "i", "p", "e", "l", "i", "n", "e">>, <<"d", "e", "p", "l", "o", "y">>,
    <<"i", "n", "f", "r", "a", "s", "t", "r", "u", "c", "t", "u", "r", "e">>, <<"p", "a", "c", "k", "a", "g", "e", ".", "j", "s", "o", "n">>, <<"t", "s", "c", "o", "n", "f", "i", "g">>, <<"e", "s", "l", "i", "n", "t">>, <<"p", "r", "e", "t", "t", "i", "e", "r">>,
    <<"d", "o", "c", "k", "e", "r">> }

isConfigOnlyStory(story) ==
  LET text == toLowerCase(story.title \o <<" ">> \o story.description)
  IN  \E w \in ConfigStoryWords : includes(text, w)

\* a check that did not fire: null
NoCheck == [name |-> "null", severity |-> "null", message |-> "null"]

\* "&&" mistyped: fires when the agent reports no file but the diff has some
checkEmptyDiff_DiffNotEmpty(diffStats, filesModified) ==
  IF Len(filesModified) = 0 /\ diffStats.filesChanged # 0
    THEN [name |-> "empty_diff", severity |-> "REJECT",
          message |-> "No files were modified"]
    ELSE NoCheck

checkEmptyDiff(diffStats, filesModified) ==
  IF Len(filesModified) = 0 /\ diffStats.filesChanged = 0
    THEN [name |-> "empty_diff", severity |-> "REJECT",
          message |-> "No files were modified"]
    ELSE NoCheck

checkNoTests(diffStats, story) ==
  IF isConfigOnlyStory(story) THEN NoCheck
  ELSE IF Len(diffStats.files) > 0 /\ (\A k \in 1..Len(diffStats.files) : isConfigOrDocFile(diffStats.files[k]))
    THEN NoCheck
  ELSE IF ~(\E k \in 1..Len(diffStats.files) : isTestFile(diffStats.files[k])) /\ diffStats.filesChanged > 0
    THEN [name |-> "no_tests", severity |-> "WARN",
          message |-> "No test files were modified or created"]
  ELSE NoCheck

checkZeroToolCalls(toolCalls) ==
  IF toolCalls = 0
    THEN [name |-> "zero_tool_calls", severity |-> "REJECT",
          message |-> "Agent made zero tool calls"]
    ELSE NoCheck

checkConfigOnly(diffStats, story) ==
  IF diffStats.filesChanged = 0 THEN NoCheck
  ELSE IF isConfigOnlyStory(story) THEN NoCheck
  ELSE IF (\A k \in 1..Len(diffStats.files) : isConfigOrDocFile(diffStats.files[k]))
    THEN [name |-> "config_only", severity |-> "WARN",
          message |-> "Only config/doc files changed"]
  ELSE NoCheck

\* totalChanges <= 5 in place of < 5
checkTrivialDiff_AtMostFive(diffStats) ==
  IF diffStats.filesChanged = 0 THEN NoCheck
  ELSE LET totalChanges == diffStats.insertions + diffStats.deletions IN
       IF totalChanges > 0 /\ totalChanges <= 5
         THEN [name |-> "trivial_diff", severity |-> "WARN", message |-> "Trivial diff"]
         ELSE NoCheck

checkTrivialDiff(diffStats) ==
  IF diffStats.filesChanged = 0 THEN NoCheck
  ELSE LET totalChanges == diffStats.insertions + diffStats.deletions IN
       IF totalChanges > 0 /\ totalChanges < 5
         THEN [name |-> "trivial_diff", severity |-> "WARN", message |-> "Trivial diff"]
         ELSE NoCheck

Digits == {"0", "1", "2", "3", "4", "5", "6", "7", "8", "9"}
LowerLetters == {LowerCase[k] : k \in 1..Len(LowerCase)}

\* .replace(/[^a-z0-9\s]/g, " ")
replaceNonWord(s) ==
  [i \in 1..Len(s) |->
     IF s[i] \in LowerLetters \cup Digits \cup WhiteSpace THEN s[i] ELSE " "]

\* .split(/\s+/), without the empty strings (which the length filter drops)
RECURSIVE splitWords(_, _)
splitWords(s, word) ==
  IF s = <<>> THEN (IF word = <<>> THEN <<>> ELSE <<word>>)
  ELSE IF Head(s) \in WhiteSpace
    THEN (IF word = <<>> THEN <<>> ELSE <<word>>) \o splitWords(Tail(s), <<>>)
  ELSE splitWords(Tail(s), Append(word, Head(s)))

StopWords ==
  { <<"s", "h", "o", "u", "l", "d">>, <<"m", "u", "s", "t">>, <<"w", "h", "e", "n">>, <<"t", "h", "e", "n">>, <<"t", "h", "a", "t">>, <<"t", "h", "i", "s">>, <<"w", "i", "t", "h">>, <<"f", "r", "o", "m">>,
    <<"h", "a", "v", "e">>, <<"b", "e", "e", "n">>, <<"w", "i", "l", "l">>, <<"g", "i", "v", "e", "n">> }

\* Array.prototype.join(" ") of the acceptance criteria
RECURSIVE joinText(_)
joinText(texts) ==
  IF texts = <<>> THEN <<>>
  ELSE IF Len(texts) = 1 THEN texts[1]
  ELSE texts[1] \o <<" ">> \o joinText(Tail(texts))

\* matched.length / nouns.length < 0.2, in whole numbers
checkAcceptanceCriteriaRelevance(story, diffContent, summary) ==
  IF story.acceptanceCriteria = <<>> THEN NoCheck
  ELSE LET allCriteria == joinText(story.acceptanceCriteria)
           words == splitWords(replaceNonWord(toLowerCase(allCriteria)), <<>>)
           nouns == SelectSeq(words, LAMBDA w : Len(w) >= 4 /\ w \notin StopWords)
           searchSpace == toLowerCase(diffContent \o <<" ">> \o summary)
           matched == SelectSeq(nouns, LAMBDA noun : includes(searchSpace, noun))
       IN  IF nouns = <<>> THEN NoCheck
           ELSE IF 5 * Len(matched) < Len(nouns) /\ Len(nouns) >= 3
             THEN [name |-> "acceptance_criteria_miss", severity |-> "WARN",
                   message |-> "Low acceptance criteria relevance"]
           ELSE NoCheck

\* codexResult.structuredResult is undefined
NoStructured == [defined |-> FALSE, success |-> FALSE, summary |-> <<>>]

checkSelfReportedFailure(structuredResult) ==
  IF structuredResult.defined /\ structuredResult.success = FALSE
    THEN [name |-> "self_reported_failure", severity |-> "WARN",
          message |-> "Agent self-reported failure"]
    ELSE NoCheck

\* the texts each pattern accepts, in lower case (the patterns are anchored
\* and case-insensitive)
LAZY_SUMMARY_PATTERNS ==
  << {<<"d", "o", "n", "e">>, <<"d", "o", "n", "e", ".">>},
     {<<"c", "o", "m", "p", "l", "e", "t", "e", "d">>, <<"c", "o", "m", "p", "l", "e", "t", "e", "d", ".">>},
     {<<"i", "m", "p", "l", "e", "m", "e", "n", "t", "e", "d">>, <<"i", "m", "p", "l", "e", "m", "e", "n", "t", "e", "d", ".">>},
     {<<"f", "i", "x", "e", "d">>, <<"f", "i", "x", "e", "d", ".">>},
     {<<"u", "p", "d", "a", "t", "e">>, <<"u", "p", "d", "a", "t", "e", ".">>, <<"u", "p", "d", "a", "t", "e", "d">>, <<"u", "p", "d", "a", "t", "e", "d", ".">>},
     {<<"c", "h", "a", "n", "g", "e", " ", "m", "a", "d", "e">>, <<"c", "h", "a", "n", "g", "e", " ", "m", "a", "d", "e", ".">>, <<"c", "h", "a", "n", "g", "e", "s", " ", "m", "a", "d", "e">>, <<"c", "h", "a", "n", "g", "e", "s", " ", "m", "a", "d", "e", ".">>},
     {<<"a", "l", "l", " ", "d", "o", "n", "e">>, <<"a", "l", "l", " ", "d", "o", "n", "e", ".">>, <<"a", "l", "l", " ", "g", "o", "o", "d">>, <<"a", "l", "l", " ", "g", "o", "o", "d", ".">>, <<"a", "l", "l", " ", "s", "e", "t">>, <<"a", "l", "l", " ", "s", "e", "t", ".">>},
     {<<"t", "a", "s", "k", " ", "c", "o", "m", "p", "l", "e", "t", "e">>, <<"t", "a", "s", "k", " ", "c", "o", "m", "p", "l", "e", "t", "e", ".">>} >>

\* RegExp.prototype.test with the i flag
test(pattern, text) == toLowerCase(text) \in pattern

\* the patterns tested against the summary as it is, not trimmed
checkLazySummary_NoTrim(summary) ==
  IF summary = <<>> THEN NoCheck
  ELSE IF Len(summary) < 20
    THEN [name |-> "lazy_summary", severity |-> "WARN", message |-> "Summary too short"]
  ELSE IF \E k \in 1..Len(LAZY_SUMMARY_PATTERNS) : test(LAZY_SUMMARY_PATTERNS[k], summary)
    THEN [name |-> "lazy_summary", severity |-> "WARN",
          message |-> "Lazy summary detected"]
  ELSE NoCheck

\* a missing summary is the empty string here: if (!summary) return null
checkLazySummary(summary) ==
  IF summary = <<>> THEN NoCheck
  ELSE IF Len(summary) < 20
    THEN [name |-> "lazy_summary", severity |-> "WARN", message |-> "Summary too short"]
  ELSE IF \E k \in 1..Len(LAZY_SUMMARY_PATTERNS) :
            test(LAZY_SUMMARY_PATTERNS[k], trim(summary))
    THEN [name |-> "lazy_summary", severity |-> "WARN",
          message |-> "Lazy summary detected"]
  ELSE NoCheck

\* codexResult.stderrStats is undefined
NoStats == [defined |-> FALSE, fileExplorations |-> 0, fileWrites |-> 0]

checkHeavyExplorationNoWrites(stderrStats) ==
  IF ~stderrStats.defined THEN NoCheck
  ELSE IF stderrStats.fileExplorations > 5 /\ stderrStats.fileWrites = 0
    THEN [name |-> "heavy_exploration_no_writes", severity |-> "WARN",
          message |-> "Agent explored files but wrote to none"]
  ELSE NoCheck

\* rejectReason: undefined
NoRejectReason == <<"undefined">>

\* Array.prototype.join("; ") of messages
RECURSIVE joinMessages(_)
joinMessages(messages) ==
  IF Len(messages) <= 1 THEN messages
  ELSE <<messages[1], "; ">> \o joinMessages(Tail(messages))

\* warns.length > 3 in place of >= 3
RequiresLLMReview_MoreThanThree(warns) == Len(warns) > 3

\* requiresLLMReview: warns.length >= 3
RequiresLLMReview(warns) == Len(warns) >= 3

\* verifyOutput: input.diffStats and input.diffContent are what getDiffStats
\* and getDiffContent read from the working directory
verifyOutput(input) ==
  LET diffStats == input.diffStats
      summary == IF input.codexResult.structuredResult.defined
                   THEN input.codexResult.structuredResult.summary ELSE <<>>
      maybeChecks ==
        << checkEmptyDiff(diffStats, input.codexResult.filesModified),
           checkNoTests(diffStats, input.story),
           checkZeroToolCalls(input.codexResult.toolCalls),
           checkConfigOnly(diffStats, input.story),
           checkTrivialDiff(diffStats),
           checkAcceptanceCriteriaRelevance(input.story, input.diffContent, summary),
           checkSelfReportedFailure(input.codexResult.structuredResult),
           checkLazySummary(summary),
           checkHeavyExplorationNoWrites(input.codexResult.stderrStats) >>
      checks == SelectSeq(maybeChecks, LAMBDA c : c # NoCheck)
      rejects == SelectSeq(checks, LAMBDA c : c.severity = "REJECT")
      warns == SelectSeq(checks, LAMBDA c : c.severity = "WARN")
  IN  [passed |-> Len(rejects) = 0,
       checks |-> checks,
       warnings |-> [k \in 1..Len(warns) |-> warns[k].message],
       rejectReason |-> IF Len(rejects) > 0
                          THEN joinMessages([k \in 1..Len(rejects) |-> rejects[k].message])
                          ELSE NoRejectReason,
       requiresLLMReview |-> RequiresLLMReview(warns)]

\* ---- the inputs of verifyOutput that are followed
CodeStoryTitle == <<"A", "d", "d", " ", "a", "u", "t", "h">>
CodeStoryDescription == <<"I", "m", "p", "l", "e", "m", "e", "n", "t", " ", "a", "u", "t", "h", "e", "n", "t", "i", "c", "a", "t", "i", "o", "n">>
CodeAndTestFiles == <<<<"a", "u", "t", "h", ".", "t", "s">>, <<"a", "u", "t", "h", ".", "t", "e", "s", "t", ".", "t", "s">>>>
LazySummary == <<"D", "o", "n", "e", ".">>

FileLists ==
  { <<>>,
    <<<<"a", "u", "t", "h", ".", "t", "s">>, <<"a", "u", "t", "h", ".", "t", "e", "s", "t", ".", "t", "s">>>>,
    <<<<"a", "u", "t", "h", ".", "t", "s">>>>,
    <<<<"p", "a", "c", "k", "a", "g", "e", ".", "j", "s", "o", "n">>>>,
    <<<<"R", "E", "A", "D", "M", "E", ".", "m", "d">>, <<"A", "u", "t", "h", ".", "S", "p", "e", "c", ".", "t", "s">>>>,
    <<<<"v", "i", "t", "e", ".", "c", "o", "n", "f", "i", "g", ".", "t", "s">>, <<"n", "o", "t", "e", "s", ".", "T", "X", "T">>>> }

\* insertions and deletions of a diff
LineCounts == { <<0, 0>>, <<1, 0>>, <<2, 2>>, <<3, 2>> }

DiffStatsValues ==
  { [filesChanged |-> Len(files), insertions |-> lines[1], deletions |-> lines[2],
     files |-> files] :
      files \in FileLists, lines \in LineCounts } \
  { d \in [filesChanged : {0}, insertions : 0..3, deletions : 0..2, files : {<<>>}] :
      d.insertions + d.deletions > 0 }

Stories ==
  { [title |-> <<"A", "d", "d", " ", "a", "u", "t", "h">>, description |-> <<"I", "m", "p", "l", "e", "m", "e", "n", "t", " ", "a", "u", "t", "h", "e", "n", "t", "i", "c", "a", "t", "i", "o", "n">>,
     acceptanceCriteria |-> <<>>],
    [title |-> <<"A", "d", "d", " ", "a", "u", "t", "h">>, description |-> <<"I", "m", "p", "l", "e", "m", "e", "n", "t", " ", "a", "u", "t", "h", "e", "n", "t", "i", "c", "a", "t", "i", "o", "n">>,
     acceptanceCriteria |-> <<<<"U", "s", "e", "r", "s", " ", "m", "u", "s", "t", " ", "l", "o", "g", "i", "n", " ", "w", "i", "t", "h", " ", "E", "m", "a", "i", "l">>, <<"P", "a", "s", "s", "w", "o", "r", "d", " ", "i", "s", " ", "c", "h", "e", "c", "k", "e", "d">>>>],
    [title |-> <<"C", "I">>, description |-> <<"S", "e", "t", "u", "p", " ", "t", "h", "e", " ", "p", "i", "p", "e", "l", "i", "n", "e">>,
     acceptanceCriteria |-> <<>>] }

DiffContents == { <<>>, <<"+", " ", "l", "o", "g", "i", "n", "(", "e", "m", "a", "i", "l", ",", " ", "p", "a", "s", "s", "w", "o", "r", "d", ")">> }

Summaries ==
  { <<"D", "o", "n", "e", ".">>,
    <<"A", "d", "d", "e", "d", " ", "t", "h", "e", " ", "l", "o", "g", "i", "n", " ", "f", "i", "x">>,
    <<"A", "d", "d", "e", "d", " ", "t", "h", "e", " ", "l", "o", "g", "i", "n", " ", "f", "o", "r", "m">>,
    <<" ", " ", "A", "L", "L", " ", "g", "o", "o", "d", ".", " ", " ", " ", " ", " ", " ", " ", " ", " ">>,
    <<"T", "a", "s", "k", " ", "c", "o", "m", "p", "l", "e", "t", "e", ",", " ", "a", "l", "l", " ", "o", "f", " ", "t", "h", "e", " ", "t", "e", "s", "t", "s", " ", "p", "a", "s", "s">> }

StructuredResults ==
  {NoStructured} \cup
  [defined : {TRUE}, success : BOOLEAN, summary : Summaries \cup {<<>>}]

StderrStats ==
  { NoStats,
    [defined |-> TRUE, fileExplorations |-> 5, fileWrites |-> 0],
    [defined |-> TRUE, fileExplorations |-> 6, fileWrites |-> 0],
    [defined |-> TRUE, fileExplorations |-> 6, fileWrites |-> 1] }

VerificationInputs ==
  [story : Stories,
   diffStats : DiffStatsValues,
   diffContent : DiffContents,
   codexResult : [toolCalls : {0, 5},
                  filesModified : {<<>>, <<<<"a", "u", "t", "h", ".", "t", "s">>>>},
                  structuredResult : StructuredResults,
                  stderrStats : StderrStats]]

\* ------------------------------------------------- categorizeFailure
\* the string literals of categorizeFailure
Pat ==
  [ timeout |->
      <<"t", "i", "m", "e", "o", "u", "t">>,
    exceeded |->
      <<"e", "x", "c", "e", "e", "d", "e", "d", " ", "1", "0", " ", "m", "i", "n", "u", "t", "e", "s">>,
    timed_out |->
      <<"t", "i", "m", "e", "d", " ", "o", "u", "t">>,
    error_ts |->
      <<"e", "r", "r", "o", "r", " ", "t", "s">>,
    ts_paren |->
      <<"t", "s", "(">>,
    type |->
      <<"t", "y", "p", "e">>,
    not_assignable |->
      <<"n", "o", "t", " ", "a", "s", "s", "i", "g", "n", "a", "b", "l", "e">>,
    cannot_find_name |->
      <<"c", "a", "n", "n", "o", "t", " ", "f", "i", "n", "d", " ", "n", "a", "m", "e">>,
    eslint |->
      <<"e", "s", "l", "i", "n", "t">>,
    prettier |->
      <<"p", "r", "e", "t", "t", "i", "e", "r">>,
    lint |->
      <<"l", "i", "n", "t">>,
    assert |->
      <<"a", "s", "s", "e", "r", "t">>,
    expect |->
      <<"e", "x", "p", "e", "c", "t", "(">>,
    test_fail |->
      <<"t", "e", "s", "t", " ", "f", "a", "i", "l">>,
    tests_failed |->
      <<"t", "e", "s", "t", "s", " ", "f", "a", "i", "l", "e", "d">>,
    test_suites_failed |->
      <<"t", "e", "s", "t", " ", "s", "u", "i", "t", "e", "s", " ", "f", "a", "i", "l", "e", "d">>,
    build_fail |->
      <<"b", "u", "i", "l", "d", " ", "f", "a", "i", "l">>,
    bundle |->
      <<"b", "u", "n", "d", "l", "e">>,
    esbuild |->
      <<"e", "s", "b", "u", "i", "l", "d">>,
    webpack |->
      <<"w", "e", "b", "p", "a", "c", "k">>,
    rollup |->
      <<"r", "o", "l", "l", "u", "p">>,
    vite |->
      <<"v", "i", "t", "e">> ]

\* test_failure tested before lint_error
categorizeFailure_TestBeforeLint(text) ==
  LET lower == toLowerCase(text) IN
  IF includes(lower, Pat.timeout) \/ includes(lower, Pat.exceeded)
     \/ includes(lower, Pat.timed_out) THEN "timeout"
  ELSE IF includes(lower, Pat.error_ts) \/ includes(lower, Pat.ts_paren)
     \/ (includes(lower, Pat.type) /\ includes(lower, Pat.not_assignable))
     \/ includes(lower, Pat.cannot_find_name) THEN "type_error"
  ELSE IF includes(lower, Pat.assert) \/ includes(lower, Pat.expect)
     \/ includes(lower, Pat.test_fail) \/ includes(lower, Pat.tests_failed)
     \/ includes(lower, Pat.test_suites_failed) THEN "test_failure"
  ELSE IF includes(lower, Pat.eslint) \/ includes(lower, Pat.prettier)
     \/ includes(lower, Pat.lint) THEN "lint_error"
  ELSE IF includes(lower, Pat.build_fail) \/ includes(lower, Pat.bundle)
     \/ includes(lower, Pat.esbuild) \/ includes(lower, Pat.webpack)
     \/ includes(lower, Pat.rollup) \/ includes(lower, Pat.vite) THEN "build_error"
  ELSE "unknown"

categorizeFailure(text) ==
  LET lower == toLowerCase(text) IN
  IF includes(lower, Pat.timeout) \/ includes(lower, Pat.exceeded)
     \/ includes(lower, Pat.timed_out) THEN "timeout"
  ELSE IF includes(lower, Pat.error_ts) \/ includes(lower, Pat.ts_paren)
     \/ (includes(lower, Pat.type) /\ includes(lower, Pat.not_assignable))
     \/ includes(lower, Pat.cannot_find_name) THEN "type_error"
  ELSE IF includes(lower, Pat.eslint) \/ includes(lower, Pat.prettier)
     \/ includes(lower, Pat.lint) THEN "lint_error"
  ELSE IF includes(lower, Pat.assert) \/ includes(lower, Pat.expect)
     \/ includes(lower, Pat.test_fail) \/ includes(lower, Pat.tests_failed)
     \/ includes(lower, Pat.test_suites_failed) THEN "test_failure"
  ELSE IF includes(lower, Pat.build_fail) \/ includes(lower, Pat.bundle)
     \/ includes(lower, Pat.esbuild) \/ includes(lower, Pat.webpack)
     \/ includes(lower, Pat.rollup) \/ includes(lower, Pat.vite) THEN "build_error"
  ELSE "unknown"

\* ------------------------------------------------------------ agent runs
\* What one agent run and the validation after it can yield: the way the
\* process ended, whether the validation command exited 0, the tool calls and
\* files the run produced, whether `git commit` gave a hash, and whether the
\* run leaves what the WARN checks of verifyOutput look for.
Exits == {"ok", "timeout", "spawnError"}

Outcomes ==
  {o \in [exit : Exits, validation : BOOLEAN, toolCalls : 0..1,
          filesModified : 0..1, commit : BOOLEAN, warnings : BOOLEAN] :
     /\ o.warnings => (o.exit = "ok" /\ o.validation /\ o.toolCalls = 1)
     /\ (o.exit = "spawnError") => (o.toolCalls = 0 /\ o.filesModified = 0)
     /\ (o.exit = "timeout") => (o.toolCalls = 1 /\ o.filesModified = 0)
     /\ (o.exit = "ok" /\ ~o.validation) => (o.toolCalls = 1 /\ o.filesModified = 1)
     /\ (o.exit = "ok" /\ o.validation) => (o.toolCalls = o.filesModified)
     /\ o.commit => (o.exit = "ok" /\ o.validation)}

\* codexResult.success
CodexSuccess(o) == o.exit = "ok"

\* the error handler resolves with the plain output
CodexOutput_NoSpawnError(o) ==
  CASE o.exit = "timeout" -> "Timeout: iteration exceeded 10 minutes"
    [] OTHER -> "message"

\* the head of codexResult.output
CodexOutput(o) ==
  CASE o.exit = "timeout" -> "Timeout: iteration exceeded 10 minutes"
    [] o.exit = "spawnError" -> "Spawn error"
    [] OTHER -> "message"

\* the VerificationInput runAndValidateIteration builds after outcome o, with
\* the diff of the working directory
VerificationOf(o) ==
  [story |-> [title |-> CodeStoryTitle, description |-> CodeStoryDescription,
              acceptanceCriteria |-> <<>>],
   diffStats |-> IF o.filesModified = 0
                   THEN [filesChanged |-> 0, insertions |-> 0, deletions |-> 0,
                         files |-> <<>>]
                   ELSE [filesChanged |-> 2, insertions |-> 3, deletions |-> 2,
                         files |-> CodeAndTestFiles],
   diffContent |-> <<>>,
   codexResult |->
     [toolCalls |-> o.toolCalls,
      filesModified |-> IF o.filesModified = 0 THEN <<>> ELSE CodeAndTestFiles,
      structuredResult |-> IF o.warnings
                             THEN [defined |-> TRUE, success |-> FALSE,
                                   summary |-> LazySummary]
                             ELSE NoStructured,
      stderrStats |-> IF o.warnings
                        THEN [defined |-> TRUE, fileExplorations |-> 6, fileWrites |-> 0]
                        ELSE NoStats]]

\* what verifyOutput returns after each outcome, tabulated
OutcomeVerification == [o \in Outcomes |-> verifyOutput(VerificationOf(o))] @@ <<>>

runAndValidateIteration_NoDemotion(o, storyId) ==
  LET ok == CodexSuccess(o) /\ o.validation
  IN  [storyId |-> storyId,
       success |-> ok,
       validationPassed |-> o.validation,
       verificationPassed |->
         IF ~ok THEN "undefined"
         ELSE IF OutcomeVerification[o].passed THEN "true" ELSE "false",
       verificationWarnings |->
         IF ok /\ OutcomeVerification[o].warnings # <<>>
           THEN OutcomeVerification[o].warnings ELSE <<"undefined">>,
       commitHash |-> "undefined",
       issueCommented |-> "undefined",
       codexOutput |-> CodexOutput(o),
       toolCalls |-> o.toolCalls,
       filesModified |-> o.filesModified]

\* a verification with warnings demotes the result as a REJECT does
runAndValidateIteration_WarningsBlock(o, storyId) ==
  LET ok == CodexSuccess(o) /\ o.validation
  IN  [storyId |-> storyId,
       success |-> ok /\ OutcomeVerification[o].passed
                      /\ OutcomeVerification[o].warnings = <<>>,
       validationPassed |-> o.validation,
       verificationPassed |->
         IF ~ok THEN "undefined"
         ELSE IF OutcomeVerification[o].passed THEN "true" ELSE "false",
       verificationWarnings |->
         IF ok /\ OutcomeVerification[o].warnings # <<>>
           THEN OutcomeVerification[o].warnings ELSE <<"undefined">>,
       commitHash |-> "undefined",
       issueCommented |-> "undefined",
       codexOutput |-> CodexOutput(o),
       toolCalls |-> o.toolCalls,
       filesModified |-> o.filesModified]

\* runAndValidateIteration: the IterationResult of a run on story `storyId`
runAndValidateIteration(o, storyId) ==
  LET ok == CodexSuccess(o) /\ o.validation
  IN  [storyId |-> storyId,
       success |-> ok /\ OutcomeVerification[o].passed,
       validationPassed |-> o.validation,
       verificationPassed |->
         IF ~ok THEN "undefined"
         ELSE IF OutcomeVerification[o].passed THEN "true" ELSE "false",
       verificationWarnings |->
         IF ok /\ OutcomeVerification[o].warnings # <<>>
           THEN OutcomeVerification[o].warnings ELSE <<"undefined">>,
       commitHash |-> "undefined",
       issueCommented |-> "undefined",
       codexOutput |-> CodexOutput(o),
       toolCalls |-> o.toolCalls,
       filesModified |-> o.filesModified]

\* the output of the validation command: what it prints when it exits 0, and
\* the compiler error it prints when it does not
ValidationOutputs ==
  [passed |-> <<"o", "k">>,
   failed |-> <<"E", "r", "r", "o", "r", " ", "T", "S", "2", "3", "2", "2">>]

\* no validation was run yet
NoValidation == [success |-> FALSE, output |-> <<>>]

\* runValidation after an agent run with outcome o
runValidation(o) ==
  [success |-> o.validation,
   output  |-> IF o.validation THEN ValidationOutputs.passed ELSE ValidationOutputs.failed]

\* failCat of the loop, failureCategory of handleIterationFailure: undefined
\* for a success, verification_rejected when verificationPassed === false,
\* else categorizeFailure(validation.output)
FailureCategory(r, validation) ==
  IF r.success THEN "undefined"
  ELSE IF r.verificationPassed = "false" THEN "verification_rejected"
  ELSE categorizeFailure(validation.output)

writeIterationLogEntry_NoJob(jobId, iterationNumber, r, failureCategory) ==
  [jobId |-> 0, iterationNumber |-> iterationNumber, storyId |-> r.storyId,
   success |-> r.success, validationPassed |-> r.validationPassed,
   verificationPassed |-> r.verificationPassed, commitHash |-> r.commitHash,
   failureCategory |-> failureCategory]

\* every row numbered as the first iteration
writeIterationLogEntry_FirstIteration(jobId, iterationNumber, r, failureCategory) ==
  [jobId |-> jobId, iterationNumber |-> 1, storyId |-> r.storyId,
   success |-> r.success, validationPassed |-> r.validationPassed,
   verificationPassed |-> r.verificationPassed, commitHash |-> r.commitHash,
   failureCategory |-> failureCategory]

\* writeIterationLogEntry: the row written for a result
writeIterationLogEntry(jobId, iterationNumber, r, failureCategory) ==
  [jobId |-> jobId, iterationNumber |-> iterationNumber, storyId |-> r.storyId,
   success |-> r.success, validationPassed |-> r.validationPassed,
   verificationPassed |-> r.verificationPassed, commitHash |-> r.commitHash,
   failureCategory |-> failureCategory]

\* ------------------------------------------------------------ the loop task
NoCtx == [kind |-> "none", prd |-> NoPRD, story |-> 0]
NewTask == [pc |-> "start", i |-> 0, stopOnFailure |-> FALSE, ctx |-> NoCtx,
            run |-> NoResult, validation |-> NoValidation, retryTracker |-> NewTracker]

\* the task once executeRalphLoopAsync has returned: its locals are gone
Finish(tk) == [tk EXCEPT !.pc = "done", !.ctx = NoCtx, !.run = NoResult,
                         !.validation = NoValidation,
                         !.retryTracker = NewTracker]

\* the catch block of executeRalphLoopAsync
CatchBlock(jb) ==
  [jb EXCEPT !.status = "failed", !.error = [kind |-> "exception", n |-> 0],
             !.completedAt = TRUE]

ReachedMax_Failed(jb, p) ==
  [jb EXCEPT !.status = IF Remaining(p) > 0 THEN "failed" ELSE "completed",
             !.error = IF Remaining(p) > 0
                       THEN [kind |-> "Max iterations reached", n |-> Remaining(p)]
                       ELSE @,
             !.completedAt = TRUE]

\* the code after the for loop leaves the status as it is
ReachedMax_StaysRunning(jb, p) == jb

\* "Reached max iterations": the code after the for loop
ReachedMax(jb, p) ==
  [jb EXCEPT !.status = "completed",
             !.error = IF Remaining(p) > 0
                       THEN [kind |-> "Max iterations reached", n |-> Remaining(p)]
                       ELSE @,
             !.completedAt = TRUE]

\* the loop condition of the for loop
LoopCondition(i, maxIterations) == i < maxIterations

CancelRequested_Never(jb) == FALSE

\* the cancellation check at the head of a pass
CancelRequested(jb) == jb.status = "cancelled"

StopOnFailure_Ignored(tk) == FALSE

\* if (stopOnFailure) after a failed iteration
StopOnFailure(tk) == tk.stopOnFailure

\* The head of a loop pass: the loop condition, the cancellation check,
\* readPRD and getNextStory, the exits on "No prd.json found" and "all done",
\* or else the suspension in buildIterationContext.  jb and tk are the job and
\* the task as the code before has left them, p the PRD file.
TopOfPass(jb, tk, p) ==
  IF ~LoopCondition(tk.i, jb.maxIterations)
    THEN [job |-> ReachedMax(jb, p), task |-> Finish(tk)]
  ELSE IF CancelRequested(jb)
    THEN [job |-> jb, task |-> Finish(tk)]
  ELSE LET ctx == buildIterationContext(p)
       IN  CASE ctx.kind = "error" ->
                  [job |-> [jb EXCEPT !.status = "failed",
                                      !.error = [kind |-> "No prd.json found", n |-> 0],
                                      !.completedAt = TRUE],
                   task |-> Finish(tk)]
             [] ctx.kind = "allDone" ->
                  [job |-> [jb EXCEPT !.status = "completed", !.completedAt = TRUE,
                                      !.totalStories = Len(ctx.prd.stories)],
                   task |-> Finish(tk)]
             [] OTHER ->
                  [job |-> jb,
                   task |-> [tk EXCEPT !.pc = "ctx", !.ctx = ctx, !.run = NoResult,
                                       !.validation = NoValidation]]

\* the story a context selected, as held in the context's own copy of the PRD
CtxStory(ctx) == ctx.prd.stories[ctx.story]

SumMaxIterations ==
  LET RECURSIVE Sum(_)
      Sum(S) == IF S = {} THEN 0
                ELSE LET j == CHOOSE x \in S : TRUE
                     IN  activeJobs[j].maxIterations + Sum(S \ {j})
  IN  Sum(DOMAIN activeJobs)

\* A row and a progress entry left by a failed iteration of an earlier session
\* (its jobs are gone with the process, job id 0 stands for them).
PriorRow(k) ==
  [jobId |-> 0, iterationNumber |-> k, storyId |-> 1, success |-> FALSE,
   validationPassed |-> FALSE, verificationPassed |-> "undefined",
   commitHash |-> "undefined", failureCategory |-> "unknown"]

Limit ==
  [jobs |-> MaxJobs, passes |-> MaxTotalPasses, priors |-> MaxPriorFailures,
   stories |-> MaxStories, edits |-> MaxEdits, warnings |-> FALSE, issues |-> FALSE, iterates |-> 0, orphans |-> FALSE, replies |-> FALSE]

\* The working directory has no prd.json, or holds what an earlier session
\* left: a PRD with one pending story and the rows of its failed iterations.
LoopInit(l) ==
  /\ limit = l
  /\ \/ /\ prd = NoPRD
        /\ storySeq = 0
        /\ iterLog = <<>>
        /\ progress = <<>>
     \/ \E k \in 0..l.priors :
          /\ prd = [stories |-> <<[id |-> 1, priority |-> MaxPriority, passes |-> FALSE]>>,
                    exists |-> TRUE]
          /\ storySeq = 1
          /\ iterLog = [m \in 1..k |-> PriorRow(m)]
          /\ progress = [m \in 1..k |-> [kind |-> "Failed", storyId |-> 1]]
  /\ activeJobs = <<>>
  /\ task = <<>>
  /\ agentSpawns = <<>>
  /\ cancelSeen = <<>>
  /\ startedOn = <<>>
  /\ edits = <<>>

\* no job engine under study: no PRD, no job
LoopIdle ==
  /\ limit = [jobs |-> 0, passes |-> 0, priors |-> 0, stories |-> 0, edits |-> 0,
              warnings |-> FALSE, issues |-> FALSE, iterates |-> 0, orphans |-> FALSE, replies |-> FALSE]
  /\ prd = NoPRD /\ storySeq = 0 /\ iterLog = <<>> /\ progress = <<>>
  /\ activeJobs = <<>> /\ task = <<>> /\ agentSpawns = <<>>
  /\ cancelSeen = <<>> /\ startedOn = <<>> /\ edits = <<>>

Init == LoopInit(Limit) /\ TrackerIdle /\ CategorizeIdle /\ RegistryIdle /\ RunIdle /\ VerifyIdle /\ SelectIdle /\ IterateIdle /\ NoAgents /\ SyncIdle /\ CancelIdle

\* ralph_add_story
executeRalphAddStory(priority) ==
  /\ prd.exists
  /\ storySeq < limit.stories
  /\ storySeq' = storySeq + 1
  /\ prd' = [prd EXCEPT !.stories =
               Append(@, [id |-> storySeq + 1, priority |-> priority, passes |-> FALSE])]
  /\ UNCHANGED <<iterLog, progress, activeJobs, task, agentSpawns, cancelSeen, startedOn, edits, limit>>
  /\ UNCHANGED otherVars

\* ralph_edit_story with passes given
executeRalphEditStory(storyId, passes) ==
  /\ prd.exists
  /\ Len(edits) < limit.edits
  /\ \E k \in SeqIndexes(prd.stories) :
       /\ prd.stories[k].id = storyId
       /\ prd' = [prd EXCEPT !.stories[k].passes = passes]
  /\ edits' = Append(edits, [storyId |-> storyId, passes |-> passes,
                             jobs |-> Cardinality(DOMAIN activeJobs)])
  /\ UNCHANGED <<storySeq, iterLog, progress, activeJobs, task, agentSpawns, cancelSeen, startedOn, limit>>
  /\ UNCHANGED otherVars

\* ralph_loop: startLoopJob and, inside it, the loop task up to its first await
startLoopJob(maxIterations, stopOnFailure) ==
  LET j  == Cardinality(DOMAIN activeJobs) + 1
      jb == [status |-> "running", currentIteration |-> 0,
             maxIterations |-> maxIterations, currentStory |-> 0,
             storiesCompleted |-> 0,
             totalStories |-> IF prd.exists THEN Len(prd.stories) ELSE 0,
             results |-> <<>>, error |-> NoError, completedAt |-> FALSE]
      tk == [NewTask EXCEPT !.stopOnFailure = stopOnFailure]
      nx == TopOfPass(jb, tk, prd)
  IN  /\ j \in JobIds
      /\ SumMaxIterations + maxIterations <= limit.passes
      /\ activeJobs' = activeJobs @@ (j :> nx.job)
      /\ task' = task @@ (j :> nx.task)
      /\ agentSpawns' = agentSpawns @@ (j :> 0)
      /\ cancelSeen' = cancelSeen @@ (j :> NoCancel)
      /\ startedOn' = startedOn @@ (j :> IF prd.exists THEN Remaining(prd) ELSE -1)
      /\ UNCHANGED <<prd, storySeq, iterLog, progress, edits, limit>>
      /\ UNCHANGED otherVars

\* a ralph_loop_cancel that marks any known job cancelled, whatever its status
ralph_loop_cancel_AnyStatus(j) ==
  /\ j \in DOMAIN activeJobs
  /\ activeJobs' = [activeJobs EXCEPT ![j].status = "cancelled", ![j].completedAt = TRUE]
  /\ cancelSeen' = [cancelSeen EXCEPT ![j] =
        [seen |-> TRUE, spawns |-> agentSpawns[j],
         results |-> Len(activeJobs[j].results), pc |-> task[j].pc, i |-> task[j].i]]
  /\ cancelReply' = IF limit.replies THEN [jobId |-> j, error |-> "none"] ELSE cancelReply
  /\ UNCHANGED <<prd, storySeq, iterLog, progress, task, agentSpawns, startedOn, edits, limit>>
  /\ UNCHANGED <<standaloneVars, iterateVars, agentsAlive>>

\* what ralph_loop_cancel answers for job id j: the error of its two early
\* returns, or "none"
CancelError(j) ==
  CASE j \notin DOMAIN activeJobs -> "Job not found"
    [] activeJobs[j].status # "running" -> "Job is not running"
    [] OTHER -> "none"

\* ralph_loop_cancel: the request is refused with an error, or the job is
\* marked cancelled (refused requests and the replies are followed where
\* limit.replies says so)
ralph_loop_cancel(j) ==
  /\ CancelError(j) # "none" => limit.replies
  /\ IF CancelError(j) = "none"
     THEN /\ activeJobs' = [activeJobs EXCEPT ![j].status = "cancelled",
                                              ![j].completedAt = TRUE]
          /\ cancelSeen' = [cancelSeen EXCEPT ![j] =
                [seen |-> TRUE, spawns |-> agentSpawns[j],
                 results |-> Len(activeJobs[j].results), pc |-> task[j].pc, i |-> task[j].i]]
     ELSE UNCHANGED <<activeJobs, cancelSeen>>
  /\ cancelReply' = IF limit.replies THEN [jobId |-> j, error |-> CancelError(j)]
                                     ELSE cancelReply
  /\ UNCHANGED <<prd, storySeq, iterLog, progress, task, agentSpawns, startedOn, edits, limit>>
  /\ UNCHANGED <<standaloneVars, iterateVars, agentsAlive>>


\* a status poll that reports every field of the results
ralph_loop_status_WholeResults(jb) ==
  [status |-> jb.status, currentIteration |-> jb.currentIteration,
   storiesCompleted |-> jb.storiesCompleted, error |-> jb.error,
   results |-> jb.results]

\* ralph_loop_status with a job id: what the poll reports of the job, and of
\* each result its story, success and commit hash (title and duration are not
\* modelled)
ralph_loop_status(jb) ==
  [status |-> jb.status, currentIteration |-> jb.currentIteration,
   storiesCompleted |-> jb.storiesCompleted, error |-> jb.error,
   results |-> [k \in 1..Len(jb.results) |->
                  [storyId |-> jb.results[k].storyId,
                   success |-> jb.results[k].success,
                   commitHash |-> jb.results[k].commitHash]]]

\* where handleIterationSuccess and handleIterationFailure can throw: their
\* writes of prd.json, progress.txt and .ralph-context.json are not guarded
SuccessThrows == {"none", "writePRD", "appendProgress"}
FailureThrows == {"none", "appendProgress"}

MarkPassed_Nothing(ctx) == ctx.prd

\* handleIterationSuccess: story.passes = true in the context's copy of the PRD
MarkPassed(ctx) == [ctx.prd EXCEPT !.stories[ctx.story].passes = TRUE]

\* iterResult.commitHash = gitCommit(...) || undefined
CommitHash(o) == IF o.commit THEN "hash" ELSE "undefined"

\* the agent processes spawned for job j that have not exited
Alive(j) == IF j \in DOMAIN agentsAlive THEN agentsAlive[j] ELSE 0

\* What resolves the promise of an agent run and what it leaves of the agent
\* process: the close event comes after the process has exited, a failed spawn
\* has no process, and the 10 minute timer sends SIGTERM and resolves at once,
\* whether or not the process has ended by then.  TRUE: the process may still
\* be running (`follows`: such runs are followed).
AgentLeft(o, follows) == o.exit = "timeout" /\ follows

\* The loop task resumes with the context of a story built: the story is
\* skipped, or the agent is spawned for it.
ResumeContext(j, throws) ==
  /\ j \in DOMAIN task
  /\ task[j].pc = "ctx"
  /\ LET tk    == task[j]
         story == CtxStory(tk.ctx)
         jb    == [activeJobs[j] EXCEPT !.totalStories = Len(tk.ctx.prd.stories)]
     IN  IF shouldSkipStory(story.id, iterLog, DEFAULT_MAX_RETRIES)
         THEN IF throws
              THEN \* appendProgress throws: the catch block
                   /\ activeJobs' = [activeJobs EXCEPT ![j] = CatchBlock(jb)]
                   /\ task' = [task EXCEPT ![j] = Finish(tk)]
                   /\ UNCHANGED <<progress, agentSpawns>>
              ELSE LET nx == TopOfPass(jb, [tk EXCEPT !.i = @ + 1], prd)
                   IN  /\ progress' = Append(progress,
                            [kind |-> "Skipped", storyId |-> story.id])
                       /\ activeJobs' = [activeJobs EXCEPT ![j] = nx.job]
                       /\ task' = [task EXCEPT ![j] = nx.task]
                       /\ UNCHANGED agentSpawns
         ELSE /\ ~throws
              /\ activeJobs' = [activeJobs EXCEPT ![j] =
                   [jb EXCEPT !.currentIteration = tk.i + 1,
                              !.currentStory = story.id]]
              /\ task' = [task EXCEPT ![j].pc = "agent"]
              /\ agentSpawns' = [agentSpawns EXCEPT ![j] = @ + 1]
              /\ UNCHANGED progress
  /\ agentsAlive' = IF agentSpawns'[j] = agentSpawns[j] THEN agentsAlive
                    ELSE (j :> Alive(j) + 1) @@ agentsAlive
  /\ UNCHANGED <<prd, storySeq, iterLog, cancelSeen, startedOn, edits, limit>>
  /\ UNCHANGED <<standaloneVars, iterateVars, cancelReply>>

\* The agent run ends with outcome o: validation, verification, the result is
\* pushed, then handleIterationSuccess, or recordAttempt and
\* handleIterationFailure, up to the handler's own await; an error thrown by
\* the handler's writes before that lands in the catch block at once.
AgentDone(j, o, throwAt) ==
  /\ j \in DOMAIN task
  /\ task[j].pc = "agent"
  /\ o.warnings => limit.warnings
  /\ LET jb    == activeJobs[j]
         tk    == task[j]
         story == CtxStory(tk.ctx)
         r     == runAndValidateIteration(o, story.id)
     IN  IF r.success
         THEN /\ throwAt \in SuccessThrows
              /\ prd' = IF throwAt = "writePRD" THEN prd ELSE MarkPassed(tk.ctx)
              /\ progress' = IF throwAt # "none" THEN progress
                             ELSE Append(progress, [kind |-> "Completed", storyId |-> story.id])
              /\ IF throwAt # "none"
                 THEN /\ activeJobs' = [activeJobs EXCEPT ![j] =
                           CatchBlock([jb EXCEPT !.results = Append(@, r)])]
                      /\ task' = [task EXCEPT ![j] = Finish(tk)]
                 ELSE LET r1 == [r EXCEPT !.commitHash = CommitHash(o)]
                      IN  /\ activeJobs' = [activeJobs EXCEPT ![j].results = Append(@, r1)]
                          /\ task' = [task EXCEPT ![j] =
                               [tk EXCEPT !.pc = "success", !.run = r1,
                                          !.validation = runValidation(o),
                                          !.ctx.prd = MarkPassed(tk.ctx)]]
         ELSE /\ throwAt \in FailureThrows
              /\ prd' = prd
              /\ progress' = IF throwAt # "none" THEN progress
                             ELSE Append(progress, [kind |-> "Failed", storyId |-> story.id])
              /\ IF throwAt # "none"
                 THEN /\ activeJobs' = [activeJobs EXCEPT ![j] =
                           CatchBlock([jb EXCEPT !.results = Append(@, r)])]
                      /\ task' = [task EXCEPT ![j] = Finish(tk)]
                 ELSE /\ activeJobs' = [activeJobs EXCEPT ![j].results = Append(@, r)]
                      /\ task' = [task EXCEPT ![j] =
                           [tk EXCEPT !.pc = "failure", !.run = r,
                                      !.validation = runValidation(o),
                                      !.retryTracker = recordAttempt(@, story.id, FALSE)]]
  /\ \/ agentsAlive' = [agentsAlive EXCEPT ![j] = @ - 1]
     \/ AgentLeft(o, limit.orphans) /\ agentsAlive' = agentsAlive
  /\ UNCHANGED <<storySeq, iterLog, agentSpawns, cancelSeen, startedOn, edits, limit>>
  /\ UNCHANGED <<standaloneVars, iterateVars, cancelReply>>

\* iterResult.issueCommented = true, on the result that is already in the list
IssueClosed(r, issue) == IF issue THEN [r EXCEPT !.issueCommented = "true"] ELSE r

\* after the await in or of handleIterationSuccess: with GitHub issues on and
\* an issue number on the story (`issue`) the issue is closed and noted in the
\* result; then count, record the attempt, write the log entry, and go on to
\* the next pass
AfterSuccess(j, issue) ==
  /\ j \in DOMAIN task
  /\ task[j].pc = "success"
  /\ issue => limit.issues
  /\ LET tk  == [task[j] EXCEPT !.run = IssueClosed(@, issue)]
         jb  == [activeJobs[j] EXCEPT
                   !.results[Len(activeJobs[j].results)] = IssueClosed(@, issue),
                   !.storiesCompleted = @ + 1]
         tk1 == [tk EXCEPT !.i = @ + 1,
                           !.retryTracker = recordAttempt(@, tk.run.storyId, TRUE)]
         nx  == TopOfPass(jb, tk1, prd)
     IN  /\ iterLog' = Append(iterLog, writeIterationLogEntry(j, tk.i + 1, tk.run,
                                      FailureCategory(tk.run, tk.validation)))
         /\ activeJobs' = [activeJobs EXCEPT ![j] = nx.job]
         /\ task' = [task EXCEPT ![j] = nx.task]
  /\ UNCHANGED <<prd, storySeq, progress, agentSpawns, cancelSeen, startedOn, edits, limit>>
  /\ UNCHANGED otherVars

\* after the await of handleIterationFailure: write the log entry, then stop
\* on failure or go on to the next pass
AfterFailure(j) ==
  /\ j \in DOMAIN task
  /\ task[j].pc = "failure"
  /\ LET jb == activeJobs[j]
         tk == task[j]
     IN  /\ iterLog' = Append(iterLog, writeIterationLogEntry(j, tk.i + 1, tk.run,
                                      FailureCategory(tk.run, tk.validation)))
         /\ IF StopOnFailure(tk)
            THEN /\ activeJobs' = [activeJobs EXCEPT ![j] =
                      [jb EXCEPT !.status = "failed",
                                 !.error = [kind |-> "Story failed", n |-> 0],
                                 !.completedAt = TRUE]]
                 /\ task' = [task EXCEPT ![j] = Finish(tk)]
            ELSE LET nx == TopOfPass(jb, [tk EXCEPT !.i = @ + 1], prd)
                 IN  /\ activeJobs' = [activeJobs EXCEPT ![j] = nx.job]
                     /\ task' = [task EXCEPT ![j] = nx.task]
  /\ UNCHANGED <<prd, storySeq, progress, agentSpawns, cancelSeen, startedOn, edits, limit>>
  /\ UNCHANGED otherVars

\* ralph_iterate (executeRalphIterate, not a dry run) up to its first await:
\* the context of the next story is built; without a PRD or a pending story
\* the call returns at once and changes nothing
IterateStart ==
  /\ iterate.pc = "idle"
  /\ iterateCalls < limit.iterates
  /\ buildIterationContext(prd).kind = "story"
  /\ iterate' = [iterate EXCEPT !.pc = "ctx", !.ctx = buildIterationContext(prd)]
  /\ UNCHANGED <<iterateCalls, loopVars, standaloneVars, agentsAlive, cancelReply>>

\* the call resumes with the context built and spawns the agent
IterateSpawn ==
  /\ iterate.pc = "ctx"
  /\ iterate' = [iterate EXCEPT !.pc = "agent"]
  /\ iterateCalls' = iterateCalls + 1
  /\ UNCHANGED <<loopVars, standaloneVars, agentsAlive, cancelReply>>

\* the agent run ends with outcome o: validation, verification, then
\* handleIterationSuccess or handleIterationFailure up to the handler's await;
\* an error thrown by the handler's writes ends the call
IterateAgentDone(o, throwAt) ==
  /\ iterate.pc = "agent"
  /\ o.warnings => limit.warnings
  /\ LET story == CtxStory(iterate.ctx)
         r     == runAndValidateIteration(o, story.id)
     IN  IF r.success
         THEN /\ throwAt \in SuccessThrows
              /\ prd' = IF throwAt = "writePRD" THEN prd ELSE MarkPassed(iterate.ctx)
              /\ progress' = IF throwAt # "none" THEN progress
                             ELSE Append(progress, [kind |-> "Completed", storyId |-> story.id])
              /\ iterate' = IF throwAt # "none" THEN NoIterate
                            ELSE [iterate EXCEPT
                                    !.pc = "handler",
                                    !.run = [r EXCEPT !.commitHash = CommitHash(o)],
                                    !.validation = runValidation(o)]
         ELSE /\ throwAt \in FailureThrows
              /\ prd' = prd
              /\ progress' = IF throwAt # "none" THEN progress
                             ELSE Append(progress, [kind |-> "Failed", storyId |-> story.id])
              /\ iterate' = IF throwAt # "none" THEN NoIterate
                            ELSE [iterate EXCEPT !.pc = "handler", !.run = r,
                                                 !.validation = runValidation(o)]
  /\ UNCHANGED <<storySeq, iterLog, activeJobs, task, agentSpawns, cancelSeen, startedOn,
                 edits, limit, iterateCalls, standaloneVars, agentsAlive, cancelReply>>

\* after the await of the handler: the log entry is written under a job id of
\* the call's own (0 here) with iteration number
\* prd.metadata?.totalIterations || 1, and the call returns
IterateReturn ==
  /\ iterate.pc = "handler"
  /\ iterLog' = Append(iterLog,
       writeIterationLogEntry(0, 1, iterate.run,
                              FailureCategory(iterate.run, iterate.validation)))
  /\ iterate' = NoIterate
  /\ UNCHANGED <<prd, storySeq, progress, activeJobs, task, agentSpawns, cancelSeen,
                 startedOn, edits, limit, iterateCalls, standaloneVars, agentsAlive, cancelReply>>

Next ==
  \/ \E priority \in Priorities : executeRalphAddStory(priority)
  \/ \E storyId \in StoryIds, passes \in BOOLEAN : executeRalphEditStory(storyId, passes)
  \/ \E maxIterations \in 1..limit.passes, stopOnFailure \in BOOLEAN :
       startLoopJob(maxIterations, stopOnFailure)
  \/ \E j \in JobIds : ralph_loop_cancel(j)
  \/ \E j \in JobIds, throws \in BOOLEAN : ResumeContext(j, throws)
  \/ \E j \in JobIds, o \in Outcomes, throwAt \in SuccessThrows : AgentDone(j, o, throwAt)
  \/ \E j \in JobIds, issue \in BOOLEAN : AfterSuccess(j, issue)
  \/ \E j \in JobIds : AfterFailure(j)

Spec == Init /\ [][Next]_vars

\* Several jobs side by side on the PRD of one working directory.
SeveralJobsLimit ==
  [jobs |-> SeveralJobs, passes |-> SeveralJobsPasses, priors |-> 0,
   stories |-> 1, edits |-> 0, warnings |-> FALSE, issues |-> FALSE, iterates |-> 0, orphans |-> FALSE, replies |-> FALSE]

InitSeveralJobs == LoopInit(SeveralJobsLimit) /\ prd.exists /\ TrackerIdle /\ CategorizeIdle
                   /\ RegistryIdle /\ RunIdle /\ VerifyIdle /\ SelectIdle /\ IterateIdle /\ NoAgents /\ SyncIdle /\ CancelIdle

NextSeveralJobs ==
  \/ \E maxIterations \in 1..limit.passes, stopOnFailure \in BOOLEAN :
       startLoopJob(maxIterations, stopOnFailure)
  \/ \E j \in JobIds : ralph_loop_cancel(j)
  \/ \E j \in JobIds, throws \in BOOLEAN : ResumeContext(j, throws)
  \/ \E j \in JobIds, o \in Outcomes, throwAt \in SuccessThrows : AgentDone(j, o, throwAt)
  \/ \E j \in JobIds, issue \in BOOLEAN : AfterSuccess(j, issue)
  \/ \E j \in JobIds : AfterFailure(j)

SpecSeveralJobs == InitSeveralJobs /\ [][NextSeveralJobs]_vars

\* The same jobs, with the refused cancel requests and the replies followed.
CancelLimit == [SeveralJobsLimit EXCEPT !.passes = CancelPasses, !.replies = TRUE]

InitCancel == LoopInit(CancelLimit) /\ prd.exists /\ TrackerIdle /\ CategorizeIdle
              /\ RegistryIdle /\ RunIdle /\ VerifyIdle /\ SelectIdle /\ IterateIdle /\ NoAgents /\ SyncIdle /\ CancelIdle

SpecCancel == InitCancel /\ [][NextSeveralJobs]_vars

\* One job on a PRD whose agent runs may leave what the WARN checks look for,
\* with GitHub issues on and off.
WarningsLimit ==
  [jobs |-> MaxJobs, passes |-> WarningsPasses, priors |-> 0,
   stories |-> MaxStories, edits |-> MaxEdits, warnings |-> TRUE, issues |-> TRUE, iterates |-> 0, orphans |-> FALSE, replies |-> FALSE]

InitWarnings == LoopInit(WarningsLimit) /\ TrackerIdle /\ CategorizeIdle
                /\ RegistryIdle /\ RunIdle /\ VerifyIdle /\ SelectIdle /\ IterateIdle /\ NoAgents /\ SyncIdle /\ CancelIdle

SpecWarnings == InitWarnings /\ [][Next]_vars


\* One job followed to its end.  The loop task takes its next step whenever
\* it can: a continuation whose promise is resolved is run by the event loop,
\* and the promise of an agent run is resolved by the close or error event of
\* the process or, at the latest, by the 10 minute timer.
LiveLimit ==
  [jobs |-> LiveJobs, passes |-> LivePasses, priors |-> MaxPriorFailures,
   stories |-> 1, edits |-> MaxEdits, warnings |-> FALSE, issues |-> FALSE, iterates |-> 0, orphans |-> FALSE, replies |-> FALSE]

InitLive == LoopInit(LiveLimit) /\ TrackerIdle /\ CategorizeIdle
            /\ RegistryIdle /\ RunIdle /\ VerifyIdle /\ SelectIdle /\ IterateIdle /\ NoAgents /\ SyncIdle /\ CancelIdle

TaskStep(j) ==
  \/ \E throws \in BOOLEAN : ResumeContext(j, throws)
  \/ \E o \in Outcomes, throwAt \in SuccessThrows : AgentDone(j, o, throwAt)
  \/ \E issue \in BOOLEAN : AfterSuccess(j, issue)
  \/ AfterFailure(j)

NextLive ==
  \/ \E storyId \in StoryIds, passes \in BOOLEAN : executeRalphEditStory(storyId, passes)
  \/ \E maxIterations \in 1..limit.passes, stopOnFailure \in BOOLEAN :
       startLoopJob(maxIterations, stopOnFailure)
  \/ \E j \in JobIds : ralph_loop_cancel(j)
  \/ \E j \in JobIds, throws \in BOOLEAN : ResumeContext(j, throws)
  \/ \E j \in JobIds, o \in Outcomes, throwAt \in SuccessThrows : AgentDone(j, o, throwAt)
  \/ \E j \in JobIds, issue \in BOOLEAN : AfterSuccess(j, issue)
  \/ \E j \in JobIds : AfterFailure(j)

SpecLive == InitLive /\ [][NextLive]_vars /\ \A j \in 1..LiveJobs : WF_vars(TaskStep(j))


\* One job followed to its end on a PRD with two pending stories, the one
\* with the higher priority (the lower number) with the failed rows of an
\* earlier session.
TwoStoriesLimit ==
  [jobs |-> LiveJobs, passes |-> LivePasses, priors |-> MaxPriorFailures,
   stories |-> 2, edits |-> 0, warnings |-> FALSE, issues |-> FALSE, iterates |-> 0, orphans |-> FALSE, replies |-> FALSE]

InitTwoStories ==
  /\ limit = TwoStoriesLimit
  /\ prd = [stories |-> <<[id |-> 1, priority |-> 1, passes |-> FALSE],
                          [id |-> 2, priority |-> 2, passes |-> FALSE]>>,
            exists |-> TRUE]
  /\ storySeq = 2
  /\ \E k \in 0..limit.priors :
       /\ iterLog = [m \in 1..k |-> PriorRow(m)]
       /\ progress = [m \in 1..k |-> [kind |-> "Failed", storyId |-> 1]]
  /\ activeJobs = <<>> /\ task = <<>> /\ agentSpawns = <<>>
  /\ cancelSeen = <<>> /\ startedOn = <<>> /\ edits = <<>>
  /\ TrackerIdle /\ CategorizeIdle /\ RegistryIdle /\ RunIdle /\ VerifyIdle /\ SelectIdle /\ IterateIdle /\ NoAgents /\ SyncIdle /\ CancelIdle

SpecTwoStories ==
  InitTwoStories /\ [][NextSeveralJobs]_vars /\ \A j \in 1..LiveJobs : WF_vars(TaskStep(j))


\* Loop runs and ralph_iterate calls in one working directory, on a PRD with
\* one pending story and the failed rows of an earlier session.
RetryLimit ==
  [jobs |-> MaxJobs, passes |-> RetryPasses, priors |-> MaxPriorFailures,
   stories |-> 1, edits |-> 0, warnings |-> FALSE, issues |-> FALSE,
   iterates |-> MaxIterateCalls, orphans |-> FALSE, replies |-> FALSE]

InitRetry == LoopInit(RetryLimit) /\ prd.exists /\ TrackerIdle /\ CategorizeIdle
             /\ RegistryIdle /\ RunIdle /\ VerifyIdle /\ SelectIdle /\ IterateIdle /\ NoAgents /\ SyncIdle /\ CancelIdle

NextRetry ==
  \/ \E maxIterations \in 1..limit.passes, stopOnFailure \in BOOLEAN :
       startLoopJob(maxIterations, stopOnFailure)
  \/ \E j \in JobIds : ralph_loop_cancel(j)
  \/ \E j \in JobIds, throws \in BOOLEAN : ResumeContext(j, throws)
  \/ \E j \in JobIds, o \in Outcomes, throwAt \in SuccessThrows : AgentDone(j, o, throwAt)
  \/ \E j \in JobIds, issue \in BOOLEAN : AfterSuccess(j, issue)
  \/ \E j \in JobIds : AfterFailure(j)
  \/ IterateStart
  \/ IterateSpawn
  \/ \E o \in Outcomes, throwAt \in SuccessThrows : IterateAgentDone(o, throwAt)
  \/ IterateReturn

SpecRetry == InitRetry /\ [][NextRetry]_vars


\* One job whose agents may outlive the hard timeout of their runs: a process
\* that has not ended when the timer resolves the run is followed as running
\* from then on (the loop neither waits for it nor signals it again).
OrphansLimit ==
  [jobs |-> MaxJobs, passes |-> OrphanPasses, priors |-> 0, stories |-> 1, edits |-> 0,
   warnings |-> FALSE, issues |-> FALSE, iterates |-> 0, orphans |-> TRUE, replies |-> FALSE]

InitOrphans == LoopInit(OrphansLimit) /\ prd.exists /\ TrackerIdle /\ CategorizeIdle
               /\ RegistryIdle /\ RunIdle /\ VerifyIdle /\ SelectIdle /\ IterateIdle /\ NoAgents /\ SyncIdle /\ CancelIdle

NextOrphans ==
  \/ \E maxIterations \in 1..limit.passes, stopOnFailure \in BOOLEAN :
       startLoopJob(maxIterations, stopOnFailure)
  \/ \E j \in JobIds : ralph_loop_cancel(j)
  \/ \E j \in JobIds, throws \in BOOLEAN : ResumeContext(j, throws)
  \/ \E j \in JobIds, o \in Outcomes, throwAt \in SuccessThrows : AgentDone(j, o, throwAt)
  \/ \E j \in JobIds, issue \in BOOLEAN : AfterSuccess(j, issue)
  \/ \E j \in JobIds : AfterFailure(j)

SpecOrphans == InitOrphans /\ [][NextOrphans]_vars


\* ------------------------------------------------- executeRalphLoopSync
\* The code after the for loop: remainingStories and success from the PRD as
\* it is now, "limit" when iterationsRun has reached maxIterations with
\* stories remaining; then the LoopResult is returned.
SyncReturn(sl, p) ==
  LET remaining == IF p.exists THEN Remaining(p) ELSE sl.loopResult.remainingStories
      lr1 == [sl.loopResult EXCEPT
                !.remainingStories = remaining,
                !.success = IF p.exists /\ remaining = 0 THEN TRUE ELSE @]
      lr2 == [lr1 EXCEPT
                !.stoppedReason =
                  IF lr1.iterationsRun >= sl.maxIterations /\ lr1.remainingStories > 0
                    THEN "limit" ELSE @]
  IN  [sl EXCEPT !.pc = "returned", !.loopResult = lr2,
                 !.ctx = NoCtx, !.run = NoResult, !.validation = NoValidation]

\* The head of a pass of the for loop: the loop condition, then
\* buildIterationContext with the breaks on "error" and "allDone", or else
\* its await.
SyncTopOfPass(sl, p) ==
  IF ~LoopCondition(sl.i, sl.maxIterations) THEN SyncReturn(sl, p)
  ELSE LET ctx == buildIterationContext(p)
       IN  CASE ctx.kind = "error" ->
                  SyncReturn([sl EXCEPT !.loopResult.stoppedReason = "error"], p)
             [] ctx.kind = "allDone" ->
                  SyncReturn([sl EXCEPT !.loopResult.success = TRUE,
                                        !.loopResult.stoppedReason = "complete"], p)
             [] OTHER ->
                  [sl EXCEPT !.pc = "ctx", !.ctx = ctx, !.run = NoResult,
                             !.validation = NoValidation]

SyncLimit ==
  [jobs |-> 0, passes |-> SyncPasses, priors |-> MaxPriorFailures, stories |-> 1,
   edits |-> 0, warnings |-> FALSE, issues |-> FALSE, iterates |-> 0, orphans |-> FALSE, replies |-> FALSE]

InitSync ==
  /\ LoopInit(SyncLimit) /\ TrackerIdle /\ CategorizeIdle /\ RegistryIdle /\ RunIdle
  /\ VerifyIdle /\ SelectIdle /\ IterateIdle /\ NoAgents
  /\ syncLoop = NoSync /\ CancelIdle

\* executeRalphLoopSync is called, up to its first await
SyncStart(maxIterations, stopOnFailure) ==
  /\ syncLoop.pc = "idle"
  /\ syncLoop' = SyncTopOfPass([NoSync EXCEPT !.maxIterations = maxIterations,
                                              !.stopOnFailure = stopOnFailure], prd)
  /\ UNCHANGED <<loopVars, componentVars, iterateVars, agentsAlive, cancelReply>>

\* the context of a story is built: the story is skipped (a notice, continue)
\* or counted in iterationsRun and the agent spawned for it
SyncResume ==
  /\ syncLoop.pc = "ctx"
  /\ LET story == CtxStory(syncLoop.ctx)
     IN  IF shouldSkipStory(story.id, iterLog, DEFAULT_MAX_RETRIES)
         THEN /\ progress' = Append(progress, [kind |-> "Skipped", storyId |-> story.id])
              /\ syncLoop' = SyncTopOfPass([syncLoop EXCEPT !.i = @ + 1], prd)
         ELSE /\ progress' = progress
              /\ syncLoop' = [syncLoop EXCEPT !.pc = "agent",
                                              !.loopResult.iterationsRun = @ + 1]
  /\ UNCHANGED <<prd, storySeq, iterLog, activeJobs, task, agentSpawns, cancelSeen,
                 startedOn, edits, limit, componentVars, iterateVars, agentsAlive, cancelReply>>

\* the agent run ends with outcome o: validation, verification, then the
\* outcome handler up to its await
SyncAgentDone(o) ==
  /\ syncLoop.pc = "agent"
  /\ o.warnings => limit.warnings
  /\ LET story == CtxStory(syncLoop.ctx)
         r     == runAndValidateIteration(o, story.id)
     IN  IF r.success
         THEN /\ prd' = MarkPassed(syncLoop.ctx)
              /\ progress' = Append(progress, [kind |-> "Completed", storyId |-> story.id])
              /\ syncLoop' = [syncLoop EXCEPT
                                !.pc = "handler",
                                !.run = [r EXCEPT !.commitHash = CommitHash(o)],
                                !.validation = runValidation(o)]
         ELSE /\ prd' = prd
              /\ progress' = Append(progress, [kind |-> "Failed", storyId |-> story.id])
              /\ syncLoop' = [syncLoop EXCEPT !.pc = "handler", !.run = r,
                                              !.validation = runValidation(o)]
  /\ UNCHANGED <<storySeq, iterLog, activeJobs, task, agentSpawns, cancelSeen, startedOn,
                 edits, limit, componentVars, iterateVars, agentsAlive, cancelReply>>

\* after the await of the handler: storiesCompleted, the log entry, the
\* result pushed; then the break on stopOnFailure or the next pass
SyncAfterHandler ==
  /\ syncLoop.pc = "handler"
  /\ LET r  == syncLoop.run
         sl == [syncLoop EXCEPT
                  !.loopResult.storiesCompleted = IF r.success THEN @ + 1 ELSE @,
                  !.loopResult.results = Append(@, r)]
     IN  /\ iterLog' = Append(iterLog,
              writeIterationLogEntry(0, syncLoop.i + 1, r,
                                     FailureCategory(r, syncLoop.validation)))
         /\ syncLoop' =
              IF ~r.success /\ syncLoop.stopOnFailure
                THEN SyncReturn([sl EXCEPT !.loopResult.stoppedReason = "failure"], prd)
              ELSE SyncTopOfPass([sl EXCEPT !.i = @ + 1], prd)
  /\ UNCHANGED <<prd, storySeq, progress, activeJobs, task, agentSpawns, cancelSeen,
                 startedOn, edits, limit, componentVars, iterateVars, agentsAlive, cancelReply>>

NextSync ==
  \/ \E maxIterations \in 1..limit.passes, stopOnFailure \in BOOLEAN :
       SyncStart(maxIterations, stopOnFailure)
  \/ SyncResume
  \/ \E o \in Outcomes : SyncAgentDone(o)
  \/ SyncAfterHandler

SpecSync == InitSync /\ [][NextSync]_vars


\* ------------------------------------------------- a StoryRetryTracker
\* A tracker built with a retry limit (the program builds it with
\* DEFAULT_MAX_RETRIES); every recorded attempt is also a row of the log that
\* shouldSkipStory scans.
InitTracker ==
  /\ LoopIdle /\ CategorizeIdle /\ RegistryIdle /\ RunIdle /\ VerifyIdle /\ SelectIdle /\ IterateIdle /\ NoAgents /\ SyncIdle /\ CancelIdle
  /\ \E m \in 1..MaxRetriesChoice :
       liveTracker = [maxRetries |-> m, attempts |-> NewTracker]
  /\ scannedLog = <<>>
  /\ resetCalls = 0

TrackerRecordAttempt(storyId, success) ==
  /\ Len(scannedLog) < MaxAttempts
  /\ liveTracker' = [liveTracker EXCEPT !.attempts = recordAttempt(@, storyId, success)]
  /\ scannedLog' = Append(scannedLog, [storyId |-> storyId, success |-> success])
  /\ UNCHANGED <<resetCalls, notTrackerVars>>

\* reset(storyId)
TrackerReset(storyId) ==
  /\ resetCalls < MaxResets
  /\ liveTracker' = [liveTracker EXCEPT !.attempts = reset(@, storyId)]
  /\ resetCalls' = resetCalls + 1
  /\ UNCHANGED <<scannedLog, notTrackerVars>>

\* reset(): this.attempts.clear()
TrackerResetAll ==
  /\ resetCalls < MaxResets
  /\ liveTracker' = [liveTracker EXCEPT !.attempts = NewTracker]
  /\ resetCalls' = resetCalls + 1
  /\ UNCHANGED <<scannedLog, notTrackerVars>>

NextTracker ==
  \/ \E storyId \in StoryIds, success \in BOOLEAN : TrackerRecordAttempt(storyId, success)
  \/ \E storyId \in StoryIds : TrackerReset(storyId)
  \/ TrackerResetAll

SpecTracker == InitTracker /\ [][NextTracker]_vars

\* ------------------------------------------------- categorizeFailure on its own
\* pieces of validation output, in the letter case tools print them
Fragments ==
  { <<"T", "i", "m", "e", "d", " ", "O", "u", "t">>,
    <<"E", "r", "r", "o", "r", " ", "T", "S", "2", "3", "2", "2">>,
    <<"E", "S">>,
    <<"L", "i", "n", "t">>,
    <<"A", "s", "s", "e", "r", "t">>,
    <<"s", "(">>,
    <<"T", "y", "p", "e", " ">>,
    <<"n", "o", "t", " ", "a", "s", "s", "i", "g", "n", "a", "b", "l", "e">>,
    <<"b", "u", "i", "l", "d", " ", "f", "a", "i", "l">>,
    <<"o", "k">>,
    <<"e", "x", "p", "e", "c", "t", "(">>,
    <<"V", "i", "t", "e">> }

RECURSIVE Flatten(_)
Flatten(pieces) ==
  IF pieces = <<>> THEN <<>> ELSE Head(pieces) \o Flatten(Tail(pieces))

\* the output strings: up to MaxFragments pieces, one after the other
OutputStrings ==
  { Flatten(pieces) : pieces \in UNION { [1..n -> Fragments] : n \in 0..MaxFragments } }

InitCategorize ==
  /\ LoopIdle /\ TrackerIdle /\ RegistryIdle /\ RunIdle /\ VerifyIdle /\ SelectIdle /\ IterateIdle /\ NoAgents /\ SyncIdle /\ CancelIdle
  /\ output \in OutputStrings
  /\ failCat = NotCategorized

\* categorizeFailure(validation.output)
Categorize ==
  /\ failCat = NotCategorized
  /\ failCat' = categorizeFailure(output)
  /\ UNCHANGED <<output, notCategorizeVars>>

NextCategorize == Categorize

SpecCategorize == InitCategorize /\ [][NextCategorize]_vars

\* ------------------------------------------------- ChildProcessRegistry
\* child.kill(signal): a process that is running is sent the signal and the
\* object's killed flag is set; killed says that a signal was sent, not that
\* the process has ended. For a process that has exited nothing happens.
kill(proc, signal) ==
  IF proc.state = "running"
    THEN [proc EXCEPT !.killed = TRUE, !.signals = Append(@, signal)]
    ELSE proc

\* the loop of killAll and of its timer callback:
\* for each registered child, if (!child.killed) child.kill(signal)
killEach(registered, procs, signal) ==
  [c \in ChildIds |->
     IF c \in registered /\ ~procs[c].killed
       THEN kill(procs[c], signal) ELSE procs[c]]

\* setTimeout callback of killAll: SIGKILL
killSurvivors(registered, procs) == killEach(registered, procs, "SIGKILL")

InitRegistry ==
  /\ LoopIdle /\ TrackerIdle /\ CategorizeIdle /\ RunIdle /\ VerifyIdle /\ SelectIdle /\ IterateIdle /\ NoAgents /\ SyncIdle /\ CancelIdle
  /\ RegistryIdle

\* spawn(...) and processRegistry.register(child, label)
register(c) ==
  /\ child[c].state = "none"
  /\ child' = [child EXCEPT ![c].state = "running"]
  /\ children' = children \cup {c}
  /\ UNCHANGED <<registryVars, notRegistryVars>>

\* the process ends; "exit": this.unregister(child)
ChildExit(c) ==
  /\ child[c].state = "running"
  /\ child' = [child EXCEPT ![c].state = "exited"]
  /\ children' = children \ {c}
  /\ UNCHANGED <<registryVars, notRegistryVars>>

\* the stall callback of the run that owns the child:
\* if (!child.killed) child.kill("SIGTERM")
onStallKill(c) ==
  /\ child[c].state = "running" /\ ~child[c].killed
  /\ child' = [child EXCEPT ![c] = kill(@, "SIGTERM")]
  /\ UNCHANGED <<children, registryVars, notRegistryVars>>

\* the host receives SIGTERM or SIGINT: killAll()
killAll ==
  /\ Len(signalLog) < MaxHostSignals
  /\ signalLog' = Append(signalLog, [registered |-> children, graceOver |-> FALSE,
                                     survivors |-> {}])
  /\ IF children = {}
       THEN UNCHANGED <<child, killTimers>>
       ELSE /\ child' = killEach(children, child, "SIGTERM")
            /\ killTimers' = killTimers + 1
  /\ UNCHANGED <<children, notRegistryVars>>

\* the signals that have armed a timer which has not fired, oldest first
PendingSignals ==
  {i \in 1..Len(signalLog) : signalLog[i].registered # {} /\ ~signalLog[i].graceOver}

\* 5 s after a killAll: its timer fires
GraceExpires ==
  /\ killTimers > 0
  /\ LET i == CHOOSE k \in PendingSignals : \A m \in PendingSignals : k <= m IN
       signalLog' = [signalLog EXCEPT
                       ![i].graceOver = TRUE,
                       ![i].survivors = {c \in signalLog[i].registered :
                                           child[c].state = "running"}]
  /\ child' = killSurvivors(children, child)
  /\ killTimers' = killTimers - 1
  /\ UNCHANGED <<children, notRegistryVars>>

NextRegistry ==
  \/ \E c \in ChildIds : register(c)
  \/ \E c \in ChildIds : ChildExit(c)
  \/ \E c \in ChildIds : onStallKill(c)
  \/ killAll
  \/ GraceExpires

SpecRegistry == InitRegistry /\ [][NextRegistry]_vars

\* ------------------------------------------------- one agent run
\* runCodexIteration with its stall monitor. Output is a sequence of pieces:
\* the text of an item.completed event, of an item.started event (both of a
\* command execution), text that is not JSON, and the newline. The agent
\* writes its last message to the -o file only when it ends normally, so
\* finalMessage is empty here and a result's output is the captured stdout.
Pieces == {"completed", "started", "junk", "NL"}

Chunks == UNION { [1..n -> Pieces] : n \in 1..MaxChunk }

\* how far the clock moves between two callbacks
Delays == {60000, 120000}

\* the child process of the run
RunChild == 1

\* String.prototype.split("\n")
RECURSIVE split(_)
split(text) ==
  IF text = <<>> THEN << <<>> >>
  ELSE LET rest == split(Tail(text)) IN
       IF Head(text) = "NL" THEN << <<>> >> \o rest
       ELSE << <<Head(text)>> \o Head(rest) >> \o Tail(rest)

\* JSON.parse(line).type; a line that is not one JSON text throws
ParsedType(line) ==
  IF line = <<"completed">> THEN "item.completed"
  ELSE IF line = <<"started">> THEN "item.started"
  ELSE "SyntaxError"

\* every event that parses re-arms the stall timer
IsProgress_AnyEvent(line) == ParsedType(line) # "SyntaxError"

\* onData: parsed.type === "item.completed"
IsProgress(line) == ParsedType(line) = "item.completed"

\* onData of monitorProgress: the new buffer, and whether resetStallTimer ran
onData(buf, chunk) ==
  LET lines == split(buf \o chunk)
      complete == SubSeq(lines, 1, Len(lines) - 1)
  IN [buffer |-> lines[Len(lines)],
      reset |-> \E k \in 1..Len(complete) : complete[k] # <<>> /\ IsProgress(complete[k])]

\* parseCodexOutput: the events of the lines that parse, and the tool calls
\* (command executions, counted at item.started and at item.completed)
parseCodexOutput(text) ==
  LET lines == SelectSeq(split(text), LAMBDA l : l # <<>>)
      parsed == SelectSeq(lines, LAMBDA l : ParsedType(l) # "SyntaxError")
      events == [k \in 1..Len(parsed) |-> ParsedType(parsed[k])]
  IN [events |-> events,
      toolCalls |-> Len(SelectSeq(events,
                      LAMBDA e : e \in {"item.completed", "item.started"}))]

\* the timeout result without the captured output
TimeoutResult_Discarding(text) ==
  [settledBy |-> "timeout", success |-> FALSE, tagged |-> TRUE,
   output |-> <<>>, events |-> <<>>, toolCalls |-> 0]

\* the result of the 10 minute timer: "Timeout: ..." before the captured output
TimeoutResult(text) ==
  LET partial == parseCodexOutput(text) IN
  [settledBy |-> "timeout", success |-> FALSE, tagged |-> TRUE,
   output |-> text, events |-> partial.events, toolCalls |-> partial.toolCalls]

\* the result of "close"
CloseResult(text, code) ==
  LET parsed == parseCodexOutput(text) IN
  [settledBy |-> "close", success |-> (code = 0), tagged |-> FALSE,
   output |-> text, events |-> parsed.events, toolCalls |-> parsed.toolCalls]

\* the result of "error"
ErrorResult ==
  [settledBy |-> "error", success |-> FALSE, tagged |-> FALSE,
   output |-> <<"Spawn error">>, events |-> <<>>, toolCalls |-> 0]

\* resolve(value): only the first call settles the promise
resolve(value) == IF result = Unsettled THEN value ELSE result

InitRun ==
  /\ LoopIdle /\ TrackerIdle /\ CategorizeIdle /\ RegistryIdle
  /\ RunIdle /\ VerifyIdle /\ SelectIdle /\ IterateIdle /\ NoAgents /\ SyncIdle /\ CancelIdle

\* the executor of runCodexIteration: spawn, register, monitorProgress
\* (resetStallTimer), the listeners, the 10 minute timer
runCodexIteration(spawns) ==
  /\ child[RunChild].state = "none"
  /\ child' = [child EXCEPT ![RunChild].state = IF spawns THEN "running" ELSE "failing"]
  /\ children' = children \cup {RunChild}
  /\ listening' = TRUE
  /\ stallTimer' = now + StallTimeoutMs
  /\ stallLog' = Append(stallLog, [ev |-> "arm", at |-> now])
  /\ hardTimer' = now + HardTimeoutMs
  /\ UNCHANGED <<now, buffer, stdout, exitCode, result, fired, registryVars, notRunVars>>

\* "data" on child.stdout: stdout += data, and onData of the monitor
stdoutData(chunk) ==
  /\ child[RunChild].state \in {"running", "exited"}
  /\ Len(stdout) + Len(chunk) <= MaxOutput
  /\ stdout' = stdout \o chunk
  /\ IF listening
       THEN /\ buffer' = onData(buffer, chunk).buffer
            /\ IF onData(buffer, chunk).reset
                 THEN /\ stallTimer' = now + StallTimeoutMs
                      /\ stallLog' = Append(stallLog, [ev |-> "arm", at |-> now])
                 ELSE UNCHANGED <<stallTimer, stallLog>>
       ELSE UNCHANGED <<buffer, stallTimer, stallLog>>
  /\ UNCHANGED <<now, listening, hardTimer, exitCode, result, fired, processVars,
                 registryVars, notRunVars>>

\* time passes, up to the next timer that is due; a failed spawn is reported
\* ("error", then "close") before any timer runs
Advance(d) ==
  /\ child[RunChild].state \notin {"none", "failing", "errored"}
  /\ now + d <= MaxTime
  /\ stallTimer # NoTimer => now + d <= stallTimer
  /\ hardTimer # NoTimer => now + d <= hardTimer
  /\ now' = now + d
  /\ UNCHANGED <<monitorVars, stdout, hardTimer, exitCode, result, fired, processVars,
                 registryVars, notRunVars>>

\* the stall timer fires: onStall, if (!child.killed) child.kill("SIGTERM")
StallFires ==
  /\ stallTimer # NoTimer /\ now = stallTimer
  /\ stallTimer' = NoTimer
  /\ stallLog' = Append(stallLog, [ev |-> "stall", at |-> now])
  /\ child' = [child EXCEPT ![RunChild] = IF @.killed THEN @ ELSE kill(@, "SIGTERM")]
  /\ fired' = IF child[RunChild].state = "running" /\ ~child[RunChild].killed
                THEN Append(fired, "stall") ELSE fired
  /\ UNCHANGED <<now, listening, buffer, stdout, hardTimer, exitCode, result, children,
                 registryVars, notRunVars>>

\* the 10 minute timer fires: progressMonitor.cancel(), child.kill("SIGTERM"),
\* resolve with the partial result
HardTimeoutFires ==
  /\ hardTimer # NoTimer /\ now = hardTimer
  /\ hardTimer' = NoTimer
  /\ stallTimer' = NoTimer /\ listening' = FALSE
  /\ child' = [child EXCEPT ![RunChild] = kill(@, "SIGTERM")]
  /\ result' = resolve(TimeoutResult(stdout))
  /\ fired' = Append(fired, "timeout")
  /\ UNCHANGED <<now, buffer, stallLog, stdout, exitCode, children, registryVars,
                 notRunVars>>

\* the agent process ends, by itself or by a signal: "exit" unregisters it
ProcessExits(code) ==
  /\ child[RunChild].state = "running"
  /\ child' = [child EXCEPT ![RunChild].state = "exited"]
  /\ children' = children \ {RunChild}
  /\ exitCode' = code
  /\ UNCHANGED <<now, monitorVars, stdout, hardTimer, result, fired, registryVars,
                 notRunVars>>

\* "error": the process could not be spawned
SpawnError ==
  /\ child[RunChild].state = "failing"
  /\ child' = [child EXCEPT ![RunChild].state = "errored"]
  /\ exitCode' = ErrnoCode
  /\ result' = resolve(ErrorResult)
  /\ fired' = Append(fired, "error")
  /\ UNCHANGED <<now, monitorVars, stdout, hardTimer, children, registryVars, notRunVars>>

\* "close": progressMonitor.cancel(), resolve with the parsed output
Close ==
  /\ child[RunChild].state \in {"exited", "errored"}
  /\ child' = [child EXCEPT ![RunChild].state = "closed"]
  /\ stallTimer' = NoTimer /\ listening' = FALSE
  /\ result' = resolve(CloseResult(stdout, exitCode))
  /\ fired' = Append(fired, "close")
  /\ UNCHANGED <<now, buffer, stallLog, stdout, hardTimer, exitCode, children,
                 registryVars, notRunVars>>

NextRun ==
  \/ \E spawns \in BOOLEAN : runCodexIteration(spawns)
  \/ \E chunk \in Chunks : stdoutData(chunk)
  \/ \E d \in Delays : Advance(d)
  \/ StallFires
  \/ HardTimeoutFires
  \/ \E code \in {0, 1, NullCode} : ProcessExits(code)
  \/ SpawnError
  \/ Close

SpecRun == InitRun /\ [][NextRun]_vars

\* ------------------------------------------------- verifyOutput
\* One call of verifyOutput, on any of the inputs followed.
InitVerify ==
  /\ LoopIdle /\ TrackerIdle /\ CategorizeIdle /\ RegistryIdle /\ RunIdle /\ SelectIdle
  /\ IterateIdle /\ NoAgents /\ SyncIdle /\ CancelIdle
  /\ verifyInput \in VerificationInputs
  /\ verification = NotVerified

Verify ==
  /\ verification = NotVerified
  /\ verification' = verifyOutput(verifyInput)
  /\ UNCHANGED <<verifyInput, notVerifyVars>>

NextVerify == Verify

SpecVerify == InitVerify /\ [][NextVerify]_vars

\* ------------------------------------------------- getNextStory
\* One call of getNextStory, on any PRD of up to MaxSelectStories stories;
\* the id of a story is its place in the list.
SelectPRDs ==
  UNION { { [stories |-> [k \in 1..n |-> [id |-> k, priority |-> f[k][1], passes |-> f[k][2]]],
             exists |-> TRUE] :
              f \in [1..n -> (1..MaxSelectPriority) \X BOOLEAN] } :
          n \in 0..MaxSelectStories }

InitSelect ==
  /\ LoopIdle /\ TrackerIdle /\ CategorizeIdle /\ RegistryIdle /\ RunIdle /\ VerifyIdle
  /\ IterateIdle /\ NoAgents /\ SyncIdle /\ CancelIdle
  /\ selectPrd \in SelectPRDs
  /\ selected = NotSelected

Select ==
  /\ selected = NotSelected
  /\ selected' = getNextStory(selectPrd)
  /\ UNCHANGED <<selectPrd, notSelectVars>>

NextSelect == Select

SpecSelect == InitSelect /\ [][NextSelect]_vars

\* ------------------------------------------------------------------ claims
Jobs == DOMAIN activeJobs
Terminal == {"completed", "failed", "cancelled"}

\* rows of the iteration log written by job j
LogRowsOf(j) == {k \in SeqIndexes(iterLog) : iterLog[k].jobId = j}

AllFailed(results) == \A k \in SeqIndexes(results) : ~results[k].success

\* C1: a job's status changes at most once, so a job cancelled while an
\* iteration is in flight still reports cancelled after its loop task has
\* exited.
C1_CancelledInFlightStaysCancelled ==
  \A j \in Jobs :
    (cancelSeen[j].seen /\ cancelSeen[j].pc = "agent" /\ task[j].pc = "done") =>
      activeJobs[j].status = "cancelled"

\* C2 (as claimed): after a cancel request is accepted no agent is spawned for
\* the job any more.
C2_NoSpawnAfterCancel ==
  \A j \in Jobs : cancelSeen[j].seen => agentSpawns[j] = cancelSeen[j].spawns

\* C2 (amended): a cancel request never interrupts the pass it arrives in and
\* lets no later pass begin.  The task stays in the pass it was in until it
\* exits; an agent is spawned after the request only when the request came
\* while the pass, past its cancellation check, was still building its
\* context, and then only one; at most one more iteration completes, and an
\* iteration that was in flight is appended to the results and, unless
\* recording raised an error, to the log.
C2_CancelBetweenPasses ==
  \A j \in Jobs :
    cancelSeen[j].seen =>
      /\ task[j].pc # "done" => task[j].i = cancelSeen[j].i
      /\ task[j].i <= cancelSeen[j].i + 1
      /\ agentSpawns[j] - cancelSeen[j].spawns
           <= (IF cancelSeen[j].pc = "ctx" THEN 1 ELSE 0)
      /\ Len(activeJobs[j].results) - cancelSeen[j].results <= 1
      /\ (cancelSeen[j].pc = "agent" /\ task[j].pc = "done") =>
           /\ Len(activeJobs[j].results) = cancelSeen[j].results + 1
           /\ activeJobs[j].error.kind # "exception" =>
                Cardinality(LogRowsOf(j)) = Len(activeJobs[j].results)

\* a job cancelled while its agent ran, whose iteration was then recorded and
\* whose task has exited
C2_Witness ==
  \E j \in Jobs :
    /\ cancelSeen[j].seen /\ cancelSeen[j].pc = "agent"
    /\ task[j].pc = "done"
    /\ task[j].i = cancelSeen[j].i + 1
    /\ activeJobs[j].status = "cancelled"
    /\ Len(activeJobs[j].results) = cancelSeen[j].results + 1
    /\ Cardinality(LogRowsOf(j)) = Len(activeJobs[j].results)

\* C3: a job started with stopOnFailure whose iterations all fail ends as
\* failed after exactly one iteration: one result, one agent spawned.
C3_StopOnFirstFailure ==
  \A j \in Jobs :
    (task[j].stopOnFailure /\ activeJobs[j].results # <<>>
       /\ AllFailed(activeJobs[j].results)) =>
      /\ Len(activeJobs[j].results) = 1
      /\ agentSpawns[j] = 1
      /\ task[j].pc = "done" => activeJobs[j].status = "failed"

C3_Witness ==
  \E j \in Jobs :
    /\ task[j].stopOnFailure /\ task[j].pc = "done"
    /\ Len(activeJobs[j].results) = 1 /\ ~activeJobs[j].results[1].success
    /\ activeJobs[j].status = "failed"
    /\ activeJobs[j].error.kind = "Story failed"
    /\ activeJobs[j].maxIterations > 1


\* C4: a job started on a PRD whose stories are all complete is completed,
\* without an error and without having been anything but running before, as
\* soon as its loop task first gives up control, and it stays so: it runs no
\* iteration, spawns no agent and keeps an empty result list.
C4_AllCompleteAtStart ==
  \A j \in Jobs :
    startedOn[j] = 0 =>
      /\ activeJobs[j].status = "completed"
      /\ activeJobs[j].error = NoError
      /\ activeJobs[j].completedAt
      /\ task[j].pc = "done" /\ task[j].i = 0
      /\ activeJobs[j].results = <<>>
      /\ agentSpawns[j] = 0
      /\ activeJobs[j].currentIteration = 0
      /\ ~cancelSeen[j].seen

C4_Witness ==
  \E j \in Jobs :
    /\ startedOn[j] = 0 /\ task[j].pc = "done"
    /\ activeJobs[j].maxIterations > 1
    /\ activeJobs[j].status = "completed"
    /\ activeJobs[j].error = NoError
    /\ activeJobs[j].results = <<>>

\* the step in which job j's task leaves its for loop by the loop condition
ExhaustsBound(j) ==
  /\ j \in DOMAIN task'
  /\ task'[j].pc = "done"
  /\ task'[j].i >= activeJobs'[j].maxIterations
  /\ (j \in DOMAIN task => task[j].pc # "done")

\* C5: a job never runs more than maxIterations iterations; a job that
\* exhausts the bound ends as completed, with the warning "Max iterations
\* reached with N stories remaining" when N > 0 stories are incomplete and
\* with no error message when none is.
C5_IterationBound ==
  [][\A j \in DOMAIN activeJobs' :
       /\ Len(activeJobs'[j].results) <= activeJobs'[j].maxIterations
       /\ agentSpawns'[j] <= activeJobs'[j].maxIterations
       /\ activeJobs'[j].currentIteration <= activeJobs'[j].maxIterations
       /\ ExhaustsBound(j) =>
            /\ activeJobs'[j].status = "completed"
            /\ activeJobs'[j].error =
                 IF Remaining(prd') > 0
                 THEN [kind |-> "Max iterations reached", n |-> Remaining(prd')]
                 ELSE NoError]_vars

\* a job that ran as many iterations as its bound allows and left stories
\* incomplete
C5_Witness ==
  \E j \in Jobs :
    /\ task[j].pc = "done"
    /\ task[j].i = activeJobs[j].maxIterations
    /\ Len(activeJobs[j].results) = activeJobs[j].maxIterations
    /\ activeJobs[j].maxIterations > 1
    /\ activeJobs[j].status = "completed"
    /\ activeJobs[j].error.kind = "Max iterations reached"
    /\ activeJobs[j].error.n = Remaining(prd)
    /\ Remaining(prd) > 0

\* the step in which job j's task skips the story it selected
SkipsStory(j) ==
  /\ task[j].pc = "ctx"
  /\ Len(progress') = Len(progress) + 1
  /\ progress'[Len(progress')].kind = "Skipped"

\* C6: a pass that skips a story leaves the story incomplete, appends a skip
\* notice, produces no IterationResult and does not consume an iteration
\* slot: the job may run as many full iterations after the pass as before.
C6_SkipKeepsSlot ==
  [][\A j \in Jobs :
       SkipsStory(j) =>
         /\ prd' = prd
         /\ activeJobs'[j].results = activeJobs[j].results
         /\ activeJobs'[j].maxIterations - task'[j].i
              = activeJobs[j].maxIterations - task[j].i]_vars

\* C7: when no story is pending, or every pending story has reached the retry
\* limit, story selection reports "all done".
C7_NoEligibleStoryIsAllDone ==
  \A j \in Jobs :
    (/\ task[j].pc = "ctx"
     /\ \A k \in SeqIndexes(task[j].ctx.prd.stories) :
          \/ task[j].ctx.prd.stories[k].passes
          \/ shouldSkipStory(task[j].ctx.prd.stories[k].id, iterLog,
                             DEFAULT_MAX_RETRIES))
      => task[j].ctx.kind = "allDone"


Last(s) == s[Len(s)]

Validated(r) == r.success /\ r.validationPassed /\ r.verificationPassed = "true"

\* a step of job j's loop task that writes prd.json
LoopWritesPRD(j) ==
  /\ prd' # prd /\ edits' = edits /\ storySeq' = storySeq
  /\ task'[j] # task[j]

\* C8: a commit is made, and a story is marked complete by the loop, only for
\* an iteration whose validation and verification both passed: a result or
\* log row with a commit hash has success, validationPassed and
\* verificationPassed all true; a result rejected by verification is a
\* failure that passed validation, carries no commit, and was produced by the
\* one agent run of its iteration.
C8_CommitOnlyWhenVerified ==
  [][\A j \in Jobs :
       /\ \A k \in SeqIndexes(activeJobs'[j].results) :
            LET r == activeJobs'[j].results[k]
            IN  /\ r.commitHash # "undefined" => Validated(r)
                /\ r.verificationPassed = "false" =>
                     ~r.success /\ r.validationPassed /\ r.commitHash = "undefined"
       /\ \A k \in LogRowsOf(j)' :
            iterLog'[k].commitHash # "undefined" => Validated(iterLog'[k])
       /\ agentSpawns'[j] = Len(activeJobs'[j].results)
                              + (IF task'[j].pc = "agent" THEN 1 ELSE 0)
       /\ LoopWritesPRD(j) =>
            /\ task[j].pc = "agent"
            /\ Len(activeJobs'[j].results) = Len(activeJobs[j].results) + 1
            /\ Last(activeJobs'[j].results).success
            /\ Last(activeJobs'[j].results).validationPassed
            /\ Last(activeJobs'[j].results).verificationPassed = "true"
            /\ \E k \in SeqIndexes(prd'.stories) :
                 /\ prd'.stories[k].id = Last(activeJobs'[j].results).storyId
                 /\ prd'.stories[k].passes]_vars

\* a committed iteration, and in the same job one rejected by verification
C8_Witness ==
  \E j \in Jobs :
    /\ \E k \in SeqIndexes(activeJobs[j].results) :
         /\ activeJobs[j].results[k].commitHash = "hash"
         /\ \E m \in SeqIndexes(prd.stories) :
              prd.stories[m].id = activeJobs[j].results[k].storyId /\ prd.stories[m].passes
    /\ \E k \in SeqIndexes(activeJobs[j].results) :
         activeJobs[j].results[k].verificationPassed = "false"
    /\ agentSpawns[j] = Len(activeJobs[j].results)

\* C9: every iteration that starts ends with exactly one IterationResult in
\* the job's result list and exactly one entry in the iteration log: between
\* iterations and after the loop a job has spawned as many agents as it has
\* results and as it has log entries.
C9_OneResultOneLogEntry ==
  \A j \in Jobs :
    task[j].pc \in {"ctx", "done"} =>
      /\ agentSpawns[j] = Len(activeJobs[j].results)
      /\ Cardinality(LogRowsOf(j)) = Len(activeJobs[j].results)

HasSuccessEntry(storyId) ==
  \E k \in SeqIndexes(iterLog) : iterLog[k].storyId = storyId /\ iterLog[k].success

C11_FailureNeverEndsLoop ==
  \A j \in Jobs :
    (/\ task[j].pc = "done"
     /\ activeJobs[j].results # <<>>
     /\ task[j].i < activeJobs[j].maxIterations) =>
      \/ task[j].stopOnFailure /\ ~Last(activeJobs[j].results).success
      \/ cancelSeen[j].seen
      \/ activeJobs[j].status = "completed" /\ activeJobs[j].error = NoError

RecordsAttempt == Len(scannedLog') = Len(scannedLog) + 1

\* C13: after any sequence of recordAttempt and reset calls every story's
\* failure count is at most its attempt count, and recordAttempt adds one
\* attempt to the story, adds one failure exactly when success is false, and
\* leaves the other stories' counts alone.
C13_FailuresAtMostAttempts ==
  [][/\ \A s \in DOMAIN liveTracker'.attempts :
          /\ liveTracker'.attempts[s].failures <= liveTracker'.attempts[s].attempts
          /\ liveTracker'.attempts[s].failures >= 0
          /\ liveTracker'.attempts[s].attempts >= 1
     /\ RecordsAttempt =>
          LET e      == Last(scannedLog')
              before == StatsOrZero(liveTracker.attempts, e.storyId)
              after  == StatsOrZero(liveTracker'.attempts, e.storyId)
          IN  /\ after.attempts = before.attempts + 1
              /\ after.failures = before.failures + (IF e.success THEN 0 ELSE 1)
              /\ \A s \in StoryIds \ {e.storyId} :
                   StatsOrZero(liveTracker'.attempts, s)
                     = StatsOrZero(liveTracker.attempts, s)]_vars

\* a story with failures and successes recorded again after a reset
C13_Witness ==
  /\ resetCalls > 0
  /\ \E s \in DOMAIN liveTracker.attempts :
       /\ liveTracker.attempts[s].failures >= 1
       /\ liveTracker.attempts[s].failures < liveTracker.attempts[s].attempts

\* C14: shouldSkip(storyId) is true if and only if the failure count recorded
\* for the story is at least the configured maximum; it is false for a story
\* with no recorded attempt, and an attempt recorded for one story leaves the
\* answer for every other story as it was.  (While no reset was called, the
\* recorded failure count is the number of failed attempts in the log.)
C14_SkipIffFailuresReachMax ==
  [][/\ \A s \in StoryIds :
          LET skip == shouldSkip(liveTracker'.attempts, s, liveTracker'.maxRetries)
          IN  /\ s \notin DOMAIN liveTracker'.attempts => ~skip
              /\ skip <=> getFailCount(liveTracker'.attempts, s)
                            >= liveTracker'.maxRetries
              /\ resetCalls' = 0 =>
                   (skip <=> LogFailCount(scannedLog', s) >= liveTracker'.maxRetries)
     /\ RecordsAttempt =>
          \A s \in StoryIds \ {Last(scannedLog').storyId} :
            shouldSkip(liveTracker'.attempts, s, liveTracker'.maxRetries)
              <=> shouldSkip(liveTracker.attempts, s, liveTracker.maxRetries)]_vars

\* with the default maximum: one story at the limit and skipped, another with
\* fewer failures and not skipped
C14_Witness ==
  /\ liveTracker.maxRetries = DEFAULT_MAX_RETRIES
  /\ \E s, t \in DOMAIN liveTracker.attempts :
       /\ liveTracker.attempts[s].failures = DEFAULT_MAX_RETRIES
       /\ shouldSkip(liveTracker.attempts, s, liveTracker.maxRetries)
       /\ liveTracker.attempts[t].failures < DEFAULT_MAX_RETRIES
       /\ ~shouldSkip(liveTracker.attempts, t, liveTracker.maxRetries)

GroupOrder == <<"timeout", "type_error", "lint_error", "test_failure", "build_error">>

GroupMatches(g, lower) ==
  CASE g = "timeout" ->
         \E p \in {Pat.timeout, Pat.exceeded, Pat.timed_out} : includes(lower, p)
    [] g = "type_error" ->
         \/ \E p \in {Pat.error_ts, Pat.ts_paren, Pat.cannot_find_name} : includes(lower, p)
         \/ includes(lower, Pat.type) /\ includes(lower, Pat.not_assignable)
    [] g = "lint_error" ->
         \E p \in {Pat.eslint, Pat.prettier, Pat.lint} : includes(lower, p)
    [] g = "test_failure" ->
         \E p \in {Pat.assert, Pat.expect, Pat.test_fail, Pat.tests_failed,
                   Pat.test_suites_failed} : includes(lower, p)
    [] g = "build_error" ->
         \E p \in {Pat.build_fail, Pat.bundle, Pat.esbuild, Pat.webpack, Pat.rollup,
                   Pat.vite} : includes(lower, p)

\* C16: categorizeFailure returns one category for every output string: that
\* of the first group, in the order timeout, type_error, lint_error,
\* test_failure, build_error, one of whose patterns occurs in the lower-cased
\* text, and unknown when none does. So text with "lint" and "assert" is
\* never test_failure, and is lint_error unless a timeout or type_error
\* pattern occurs in it too; text with "timed out" and "error ts" is timeout.
C16_FirstMatchingGroupWins ==
  failCat # NotCategorized =>
    LET lower == toLowerCase(output)
        hits == {i \in 1..Len(GroupOrder) : GroupMatches(GroupOrder[i], lower)}
    IN /\ failCat \in {GroupOrder[i] : i \in 1..Len(GroupOrder)} \cup {"unknown"}
       /\ hits = {} => failCat = "unknown"
       /\ hits # {} => failCat = GroupOrder[CHOOSE i \in hits : \A k \in hits : i <= k]
       /\ (includes(lower, Pat.lint) /\ includes(lower, Pat.assert)) =>
            /\ failCat \in {"timeout", "type_error", "lint_error"}
            /\ (~GroupMatches("timeout", lower) /\ ~GroupMatches("type_error", lower)) =>
                 failCat = "lint_error"
       /\ (includes(lower, Pat.timed_out) /\ includes(lower, Pat.error_ts)) =>
            failCat = "timeout"

\* "Lint" and "Assert" in one string, categorised lint_error
C16_Witness ==
  /\ failCat = "lint_error"
  /\ includes(toLowerCase(output), Pat.lint)
  /\ includes(toLowerCase(output), Pat.assert)
  /\ output # toLowerCase(output)


\* ---- C17
\* C17: every child registered when a host signal arrives has been sent
\* SIGTERM, and once the grace period of that signal is over every one of
\* them that had not exited by then has been sent SIGKILL.
C17_SurvivorsGetSigkill ==
  \A i \in 1..Len(signalLog) :
    /\ \A c \in signalLog[i].registered :
         \E k \in 1..Len(child[c].signals) : child[c].signals[k] = "SIGTERM"
    /\ signalLog[i].graceOver =>
         \A c \in signalLog[i].survivors :
           \E k \in 1..Len(child[c].signals) : child[c].signals[k] = "SIGKILL"


\* ---- C18
\* the item.completed events in a text: the lines that hold one and are ended
\* by a newline
CompletedLines(text) ==
  Cardinality({k \in 1..(Len(text) - 1) :
                 /\ text[k] = "completed" /\ text[k + 1] = "NL"
                 /\ (k = 1 \/ text[k - 1] = "NL")})

\* C18: every call of onStall comes one stall window after the latest arming
\* of the timer with no call in between (once per stall episode); while the
\* monitor listens the window never passes without that call; after the
\* start the timer is armed again by a data event that completes an
\* item.completed line and by nothing else (not by other events, not by
\* text that is not JSON).
C18_OneStallPerEpisode ==
  [][LET log == stallLog' IN
     /\ \A k \in 1..Len(log) :
          log[k].ev = "stall" =>
            /\ k > 1 /\ log[k - 1].ev = "arm"
            /\ log[k].at = log[k - 1].at + StallTimeoutMs
     /\ (listening' /\ log # <<>> /\ log[Len(log)].ev = "arm") =>
          now' <= log[Len(log)].at + StallTimeoutMs
     /\ (stallLog # <<>> /\ log # stallLog /\ log[Len(log)].ev = "arm") =>
          listening /\ CompletedLines(stdout') > CompletedLines(stdout)
     /\ (listening /\ CompletedLines(stdout') > CompletedLines(stdout)) =>
          /\ stallTimer' = now + StallTimeoutMs
          /\ log = Append(stallLog, [ev |-> "arm", at |-> now])
    ]_vars

\* two stall episodes, onStall called once in each, an item.completed event
\* between them
C18_Witness ==
  /\ Len(stallLog) = 4
  /\ stallLog[2].ev = "stall" /\ stallLog[3].ev = "arm" /\ stallLog[4].ev = "stall"
  /\ \E k \in 1..Len(stdout) : stdout[k] = "started"

C20_FirstToFireSettlesResult ==
  [][/\ result # Unsettled => result' = result
     /\ result' # Unsettled =>
          /\ fired'[1] # "stall" => result'.settledBy = fired'[1]
          /\ fired'[1] = "stall" => result'.settledBy = "close" /\ ~result'.success
          /\ result'.settledBy \in {"close", "timeout"} =>
               result'.events = parseCodexOutput(result'.output).events
    ]_vars

\* ---- C21
\* the verification has been made, and a check of this name and severity is
\* in its check list
Verified == verification # NotVerified
FiredAs(name, severity) ==
  \E k \in 1..Len(verification.checks) :
    verification.checks[k].name = name /\ verification.checks[k].severity = severity

\* the agent made no tool call, reported no modified file, and the diff of the
\* working directory has no file
NoWorkDone ==
  /\ verifyInput.codexResult.toolCalls = 0
  /\ verifyInput.codexResult.filesModified = <<>>
  /\ verifyInput.diffStats.filesChanged = 0

IsCodeFile(file) == ~isConfigOrDocFile(file)

\* the summary verifyOutput reads from the structured result
SummaryOf(input) ==
  IF input.codexResult.structuredResult.defined
    THEN input.codexResult.structuredResult.summary ELSE <<>>

\* the diff has a code file and a test file and at least 5 changed lines, the
\* summary has at least 20 characters and matches no lazy pattern
SubstantiveWork ==
  /\ (\E k \in 1..Len(verifyInput.diffStats.files) : IsCodeFile(verifyInput.diffStats.files[k]))
  /\ (\E k \in 1..Len(verifyInput.diffStats.files) : isTestFile(verifyInput.diffStats.files[k]))
  /\ verifyInput.diffStats.insertions + verifyInput.diffStats.deletions >= 5
  /\ Len(SummaryOf(verifyInput)) >= 20
  /\ \A k \in 1..Len(LAZY_SUMMARY_PATTERNS) :
       ~test(LAZY_SUMMARY_PATTERNS[k], trim(SummaryOf(verifyInput)))

\* the claim as stated: substantive work always passes with no warning
C22_SubstantiveWorkPassesClean ==
  (Verified /\ SubstantiveWork) =>
    (verification.passed /\ verification.warnings = <<>>)

\* what the claim leaves out: the agent made a tool call, did not report
\* failure, did not explore more than 5 files while writing none, and the
\* acceptance criteria check has nothing to report
NothingElseToReport ==
  /\ verifyInput.codexResult.toolCalls > 0
  /\ ~(verifyInput.codexResult.structuredResult.defined
       /\ ~verifyInput.codexResult.structuredResult.success)
  /\ ~(verifyInput.codexResult.stderrStats.defined
       /\ verifyInput.codexResult.stderrStats.fileExplorations > 5
       /\ verifyInput.codexResult.stderrStats.fileWrites = 0)
  /\ checkAcceptanceCriteriaRelevance(verifyInput.story, verifyInput.diffContent,
                                      SummaryOf(verifyInput)) = NoCheck

\* C22 (amended): verifyOutput on an iteration whose diff contains a code file
\* and a test file and at least 5 changed lines, whose summary has at least 20
\* characters and matches no lazy pattern, whose agent made at least one tool
\* call, did not report failure and did not explore more than 5 files without
\* a write, and whose acceptance criteria are not missed by diff and summary,
\* returns passed = true with an empty warning list and no check at all.
C22_SubstantiveWorkAndNothingElse ==
  (Verified /\ SubstantiveWork /\ NothingElseToReport) =>
    /\ verification.passed
    /\ verification.warnings = <<>>
    /\ verification.checks = <<>>
    /\ verification.rejectReason = NoRejectReason
    /\ ~verification.requiresLLMReview

\* such an iteration has been verified: exactly 5 changed lines, a story with
\* acceptance criteria, stderr statistics at the edge
C22_Witness ==
  /\ Verified /\ SubstantiveWork /\ NothingElseToReport
  /\ verifyInput.diffStats.insertions + verifyInput.diffStats.deletions = 5
  /\ verifyInput.story.acceptanceCriteria # <<>>
  /\ verifyInput.codexResult.stderrStats.fileExplorations = 6
  /\ verification.passed


\* ---- C23
\* the messages of the checks of one severity in a check list, in list order
RECURSIVE MessagesOf(_, _)
MessagesOf(checks, severity) ==
  IF checks = <<>> THEN <<>>
  ELSE IF Head(checks).severity = severity
    THEN <<Head(checks).message>> \o MessagesOf(Tail(checks), severity)
  ELSE MessagesOf(Tail(checks), severity)

\* messages with "; " between them
RECURSIVE Joined(_)
Joined(messages) ==
  IF messages = <<>> THEN <<>>
  ELSE IF Tail(messages) = <<>> THEN <<Head(messages)>>
  ELSE <<Head(messages), "; ">> \o Joined(Tail(messages))

\* the outcomes of the nine checks on an input, in the order verifyOutput runs
\* them
CheckOutcomes(input) ==
  << checkEmptyDiff(input.diffStats, input.codexResult.filesModified),
     checkNoTests(input.diffStats, input.story),
     checkZeroToolCalls(input.codexResult.toolCalls),
     checkConfigOnly(input.diffStats, input.story),
     checkTrivialDiff(input.diffStats),
     checkAcceptanceCriteriaRelevance(input.story, input.diffContent, SummaryOf(input)),
     checkSelfReportedFailure(input.codexResult.structuredResult),
     checkLazySummary(SummaryOf(input)),
     checkHeavyExplorationNoWrites(input.codexResult.stderrStats) >>

\* those that fired
RECURSIVE FiredOf(_)
FiredOf(outcomes) ==
  IF outcomes = <<>> THEN <<>>
  ELSE IF Head(outcomes) = NoCheck THEN FiredOf(Tail(outcomes))
  ELSE <<Head(outcomes)>> \o FiredOf(Tail(outcomes))

\* C23: for every combination of check outcomes, verifyOutput returns
\* passed = true exactly when no REJECT check fired, requiresLLMReview = true
\* exactly when at least 3 WARN checks fired, warnings equal to the messages of
\* the WARN checks in check order, and rejectReason equal to the REJECT
\* messages joined by "; ", undefined when there is none.
C23_Aggregation ==
  Verified =>
    LET firing  == FiredOf(CheckOutcomes(verifyInput))
        rejects == MessagesOf(firing, "REJECT")
        warns   == MessagesOf(firing, "WARN")
    IN  /\ verification.checks = firing
        /\ verification.passed <=> (rejects = <<>>)
        /\ verification.requiresLLMReview <=> (Len(warns) >= 3)
        /\ verification.warnings = warns
        /\ verification.rejectReason =
             IF rejects = <<>> THEN NoRejectReason ELSE Joined(rejects)

\* a verification with two REJECT checks and exactly three WARN checks
C23_Witness ==
  /\ Verified
  /\ Len(MessagesOf(verification.checks, "REJECT")) = 2
  /\ Len(verification.warnings) = 3
  /\ verification.requiresLLMReview
  /\ ~verification.passed


\* ---- C29
\* lazy_summary is in the check list, as a warning
LazySummaryFired == FiredAs("lazy_summary", "WARN")

\* the trimmed summary is one of the canned phrases, whatever its case
MatchesLazyPattern(summary) ==
  \E k \in 1..Len(LAZY_SUMMARY_PATTERNS) : test(LAZY_SUMMARY_PATTERNS[k], trim(summary))

\* the claim as stated: the check fires exactly when the summary is missing or
\* empty, shorter than 20 characters, or a canned phrase once trimmed
C29_LazySummaryAsStated ==
  Verified =>
    (LazySummaryFired <=>
       \/ SummaryOf(verifyInput) = <<>>
       \/ Len(SummaryOf(verifyInput)) < 20
       \/ MatchesLazyPattern(SummaryOf(verifyInput)))

\* C29 (amended): the lazy_summary check warns when the summary is present and
\* not empty and either is shorter than 20 characters or, once trimmed, matches
\* one of the canned phrases case-insensitively; otherwise, and so for a
\* missing or empty summary, it does not fire.
C29_LazySummaryOnlyWhenPresent ==
  Verified =>
    (LazySummaryFired <=>
       /\ SummaryOf(verifyInput) # <<>>
       /\ \/ Len(SummaryOf(verifyInput)) < 20
          \/ MatchesLazyPattern(SummaryOf(verifyInput)))

\* a summary of 20 characters that is a canned phrase in mixed case with blanks
\* around it has been verified, and the check fired
C29_Witness ==
  /\ Verified
  /\ Len(SummaryOf(verifyInput)) >= 20
  /\ MatchesLazyPattern(SummaryOf(verifyInput))
  /\ LazySummaryFired


\* ---- C24
\* the outcome of a run that exited successfully, passed validation, and whose
\* verification fired WARN checks and no REJECT check
WarnedOnly(o) ==
  /\ o.exit = "ok" /\ o.validation
  /\ OutcomeVerification[o].passed
  /\ OutcomeVerification[o].warnings # <<>>

\* C24: WARN checks are advisory only. When an agent run ends with an outcome
\* that has warnings and no REJECT, the result pushed is a success that carries
\* the warnings; the story is marked complete in the PRD written (unless the
\* write of prd.json itself raises an error); and when the handler's writes
\* succeed the commit is made and its hash, if any, is recorded in the result,
\* and the loop goes on as after any success.
C24_WarningsAreAdvisory ==
  [][\A j \in Jobs, o \in Outcomes, throwAt \in SuccessThrows :
       (WarnedOnly(o) /\ AgentDone(j, o, throwAt)) =>
         LET r == Last(activeJobs'[j].results)
         IN  /\ Len(activeJobs'[j].results) = Len(activeJobs[j].results) + 1
             /\ r.success
             /\ r.verificationPassed = "true"
             /\ r.verificationWarnings = OutcomeVerification[o].warnings
             /\ (throwAt # "writePRD") =>
                  prd'.stories[task[j].ctx.story].passes
             /\ (throwAt = "none") =>
                  /\ r.commitHash = CommitHash(o)
                  /\ task'[j].pc = "success"]_vars

\* a job has a successful result with three warnings and a commit hash, and
\* the story of the result is complete in the PRD
C24_Witness ==
  \E j \in Jobs : \E k \in 1..Len(activeJobs[j].results) :
    LET r == activeJobs[j].results[k]
    IN  /\ r.success
        /\ r.verificationWarnings # <<"undefined">>
        /\ Len(r.verificationWarnings) = 3
        /\ r.commitHash = "hash"
        /\ \E s \in 1..Len(prd.stories) :
             prd.stories[s].id = r.storyId /\ prd.stories[s].passes


\* ---- C25
\* C25: a story, once added to the PRD, is never removed from it by any later
\* operation, under every interleaving of add-story and edit-story calls with
\* iterations in flight: every story ever added (ids 1..storySeq) is in
\* prd.json.
C25_StoriesNeverRemoved ==
  prd.exists =>
    \A id \in 1..storySeq : \E k \in 1..Len(prd.stories) : prd.stories[k].id = id


PendingPlaces == {k \in 1..Len(selectPrd.stories) : ~selectPrd.stories[k].passes}

\* C27: story selection returns a pending story with the lowest priority
\* number, the earliest-listed one among those of equal priority, and returns
\* none exactly when no story is pending; a completed story is never selected.
C27_LowestPriorityPendingFirst ==
  (selected # NotSelected) =>
    /\ (selected = NoStory) <=> (PendingPlaces = {})
    /\ (selected # NoStory) =>
         /\ selected.id \in PendingPlaces
         /\ selected = selectPrd.stories[selected.id]
         /\ ~selected.passes
         /\ \A m \in PendingPlaces :
              \/ selected.priority < selectPrd.stories[m].priority
              \/ /\ selected.priority = selectPrd.stories[m].priority
                 /\ selected.id <= m

\* the story selected is listed behind a completed story of lower priority
\* number and before a pending story of its own priority
C27_Witness ==
  /\ selected # NotSelected /\ selected # NoStory
  /\ Len(selectPrd.stories) = 3
  /\ selected.id = 2
  /\ selectPrd.stories[1].passes
  /\ selectPrd.stories[1].priority < selected.priority
  /\ ~selectPrd.stories[3].passes
  /\ selectPrd.stories[3].priority = selected.priority


\* ---- C28
\* the last ralph_edit_story call set passes = false on the story, and job j
\* was started after it
ResetBeforeJob(storyId, j) ==
  /\ edits # <<>>
  /\ Last(edits).storyId = storyId
  /\ Last(edits).passes = FALSE
  /\ Last(edits).jobs < j

\* C28: setting passes = false on a story with ralph_edit_story resets it for
\* retry: when the first pass of a loop run started after the reset has
\* selected the story (it is the highest-priority pending story), the run
\* spawns an agent for it, whatever rows the story has in the iteration log.
C28_ResetStoryIsAttempted ==
  [][\A j \in Jobs :
       ( /\ task[j].pc = "ctx" /\ task[j].i = 0
         /\ ResetBeforeJob(CtxStory(task[j].ctx).id, j)
         /\ task'[j] # task[j] )
       => agentSpawns'[j] = agentSpawns[j] + 1]_vars


\* ---- C30
\* the claim as stated: no field of a result changes once the result is in the
\* job's list
C30_ResultImmutable ==
  [][\A j \in Jobs : \A k \in 1..Len(activeJobs[j].results) :
       activeJobs'[j].results[k] = activeJobs[j].results[k]]_vars

\* C30 (amended): once a result is in the job's list, what a status poll
\* reports of it (story, success, commit hash) never changes, nor do its
\* validation and verification fields and its output; two status polls that
\* both see the result see the same values. The issue fields are not among
\* them: they are set after the result is in the list.
C30_PolledFieldsImmutable ==
  [][\A j \in Jobs : \A k \in 1..Len(activeJobs[j].results) :
       /\ ralph_loop_status(activeJobs'[j]).results[k]
            = ralph_loop_status(activeJobs[j]).results[k]
       /\ [activeJobs'[j].results[k] EXCEPT !.issueCommented = "undefined"]
            = [activeJobs[j].results[k] EXCEPT !.issueCommented = "undefined"]]_vars

\* a result with a commit hash whose issue fields were set after it was
\* appended, in the list of a job that has gone on
C30_Witness ==
  \E j \in Jobs : \E k \in 1..Len(activeJobs[j].results) :
    /\ activeJobs[j].results[k].issueCommented = "true"
    /\ activeJobs[j].results[k].commitHash = "hash"
    /\ ralph_loop_status(activeJobs[j]).results[k].success
    /\ task[j].pc # "success"


\* ---- C31
\* the rows of the iteration log written by job j, in log order
JobRows(log, j) == SelectSeq(log, LAMBDA e : e.jobId = j)

\* what a result is from the moment it is built: the fields that are not
\* filled in by the success handler afterwards
Built(r) == [storyId |-> r.storyId, success |-> r.success,
             validationPassed |-> r.validationPassed,
             verificationPassed |-> r.verificationPassed,
             codexOutput |-> r.codexOutput, toolCalls |-> r.toolCalls,
             filesModified |-> r.filesModified]

\* the rows of job j stand, in order, for the first results of the job, with
\* growing iteration numbers
RowsFollowResults(j) ==
  LET rows == JobRows(iterLog, j)
      res  == activeJobs[j].results
  IN  /\ Len(rows) <= Len(res)
      /\ \A k \in SeqIndexes(rows) :
           /\ rows[k].storyId = res[k].storyId
           /\ rows[k].success = res[k].success
           /\ \A m \in SeqIndexes(rows) :
                k < m => rows[k].iterationNumber < rows[m].iterationNumber

\* C31: a job's result list and the iteration log only grow by appending: a
\* step leaves the results a job has where they are and adds at most one at
\* the end, leaves every row of the log as it is and adds rows only at the
\* end; and at any time the rows of each job are in the log in the order of
\* that job's iterations, one for each of its first results, also when the
\* rows of several jobs interleave.
C31_AppendOnly ==
  /\ [](\A j \in Jobs : RowsFollowResults(j))
  /\ [][/\ Len(iterLog') \in {Len(iterLog), Len(iterLog) + 1}
        /\ SubSeq(iterLog', 1, Len(iterLog)) = iterLog
        /\ \A j \in Jobs :
             LET old == activeJobs[j].results
                 new == activeJobs'[j].results
             IN  /\ Len(new) \in {Len(old), Len(old) + 1}
                 /\ \A k \in SeqIndexes(old) : Built(new[k]) = Built(old[k])]_vars

\* the log holds, in this order, a row of one job, a row of another job and a
\* second row of the first job, whose result list has its two results
C31_Witness ==
  \E j1, j2 \in Jobs :
    /\ j1 # j2
    /\ Len(activeJobs[j1].results) = 2
    /\ Len(JobRows(iterLog, j1)) = 2
    /\ \E a, b, c \in SeqIndexes(iterLog) :
         /\ a < b /\ b < c
         /\ iterLog[a].jobId = j1 /\ iterLog[b].jobId = j2 /\ iterLog[c].jobId = j1

\* ---- C32
\* C32: every started job eventually has a terminal status (completed, failed
\* or cancelled), given that its loop task goes on whenever it can, which
\* includes that each agent run and each validation run ends.
C32_EveryJobEnds ==
  \A j \in 1..LiveJobs :
    (j \in Jobs) ~> (j \in Jobs /\ activeJobs[j].status \in Terminal)

\* a job that has ended at the bound after two failed iterations and a skip
C32_Witness ==
  \E j \in Jobs :
    /\ task[j].pc = "done"
    /\ activeJobs[j].status = "completed"
    /\ activeJobs[j].maxIterations = 3
    /\ Len(activeJobs[j].results) = 2
    /\ AllFailed(activeJobs[j].results)
    /\ Len(SelectSeq(progress, LAMBDA e : e.kind = "Skipped")) = 1

\* ---- C33
\* the loop task of job j is at a skip decision with passes left after this
\* one: the selected story has reached the retry limit and pending story
\* `other` has not
SkipsWithOtherWaiting(j, other) ==
  /\ j \in Jobs
  /\ task[j].pc = "ctx"
  /\ task[j].i + 1 < activeJobs[j].maxIterations
  /\ shouldSkipStory(CtxStory(task[j].ctx).id, iterLog, DEFAULT_MAX_RETRIES)
  /\ \E k \in SeqIndexes(prd.stories) :
       /\ prd.stories[k].id = other
       /\ ~prd.stories[k].passes
       /\ other # CtxStory(task[j].ctx).id
       /\ ~shouldSkipStory(other, iterLog, DEFAULT_MAX_RETRIES)

\* C33: when the highest-priority pending story has reached the retry limit
\* while another pending story has not, a loop with passes left goes past the
\* skipped story and eventually runs an iteration for the other story, unless
\* the job is cancelled or ended by an error in between.
C33_SkippedStoryYieldsToOther ==
  \A j \in 1..LiveJobs : \A other \in 1..2 :
    SkipsWithOtherWaiting(j, other) ~>
      /\ j \in Jobs
      /\ \/ activeJobs[j].currentStory = other
         \/ activeJobs[j].status = "cancelled"
         \/ activeJobs[j].error.kind = "exception"

\* ---- C34
\* the categories of the failure taxonomy other than verification_rejected
Taxonomy == {"type_error", "test_failure", "lint_error", "build_error", "timeout", "unknown"}

\* the rows of failed iterations of job j are classified as claimed, each row
\* against the result it was written for
FailedRowsClassified(j) ==
  LET rows == JobRows(iterLog, j)
      res  == activeJobs[j].results
  IN  \A k \in SeqIndexes(rows) :
        ~rows[k].success =>
          /\ (rows[k].failureCategory = "verification_rejected")
               <=> (res[k].verificationPassed = "false")
          /\ res[k].verificationPassed # "false" => rows[k].failureCategory \in Taxonomy
          /\ res[k].codexOutput = "Timeout: iteration exceeded 10 minutes"
               => rows[k].failureCategory = "timeout"

\* C34: the log entry of a failed iteration has failure category
\* verification_rejected exactly when verification ran and rejected, and
\* otherwise a category of the failure taxonomy; the entry of an iteration
\* whose agent was stopped by the hard timeout has category timeout.
C34_FailureClassified == \A j \in Jobs : FailedRowsClassified(j)

\* ---- C35
\* the loop task of job j is at a skip decision: the context of a story is
\* built and shouldSkipStory is called next
AtSkipDecision(j) == task[j].pc = "ctx"

\* the answers of the job's tracker and of the scan of the log for the story
\* selected
TrackerSaysSkip(j) ==
  shouldSkip(task[j].retryTracker, CtxStory(task[j].ctx).id, DEFAULT_MAX_RETRIES)

LogSaysSkip(j) ==
  shouldSkipStory(CtxStory(task[j].ctx).id, iterLog, DEFAULT_MAX_RETRIES)

\* every failed row the log holds for the story was written by job j
OnlyOwnFailedRows(j, storyId) ==
  \A k \in SeqIndexes(iterLog) :
    (iterLog[k].storyId = storyId /\ ~iterLog[k].success) => iterLog[k].jobId = j

C36_NoRunPastRetryLimit ==
  /\ [](\A k \in SeqIndexes(iterLog) :
          LogFailCount(iterLog, iterLog[k].storyId) <= DEFAULT_MAX_RETRIES)
  /\ [][/\ iterateCalls' # iterateCalls =>
             ~shouldSkipStory(CtxStory(iterate.ctx).id, iterLog, DEFAULT_MAX_RETRIES)
        /\ \A j \in Jobs :
             agentSpawns'[j] # agentSpawns[j] =>
               ~shouldSkipStory(CtxStory(task[j].ctx).id, iterLog, DEFAULT_MAX_RETRIES)]_vars

\* ---- C37
\* C37: when a job spawns the agent for an iteration, no agent process
\* spawned by an earlier iteration of the job is still alive, also after an
\* iteration that ended by hard timeout or stall kill; and once the loop task
\* of a job has ended no agent process of the job is alive.
C37_NoAgentOutlivesItsIteration ==
  /\ [](\A j \in Jobs : task[j].pc = "done" => Alive(j) = 0)
  /\ [][\A j \in Jobs : agentSpawns'[j] # agentSpawns[j] => Alive(j) = 0]_vars

\* ---- C38
\* results with success = true
Successes(results) == Len(SelectSeq(results, LAMBDA r : r.success))

\* the loop task of job j is between two passes or has ended
AtPassBoundary(j) == task[j].pc \in {"ctx", "done"}

\* C38: in every reachable state of a job,
\* results.length <= currentIteration <= maxIterations, completedAt is set
\* exactly when the status is not running, and at every pass boundary and at
\* termination storiesCompleted is the number of results with success = true.
C38_JobCounters ==
  \A j \in Jobs :
    LET jb == activeJobs[j]
    IN  /\ Len(jb.results) <= jb.currentIteration
        /\ jb.currentIteration <= jb.maxIterations
        /\ jb.completedAt <=> (jb.status # "running")
        /\ AtPassBoundary(j) => jb.storiesCompleted = Successes(jb.results)

\* ---- C39
\* the for loop of the synchronous loop was left because i reached
\* maxIterations
SyncExhausted == syncLoop.pc = "returned" /\ syncLoop.i = syncLoop.maxIterations

\* C39: the synchronous loop reports stoppedReason = "complete" only when no
\* story remains incomplete, and when it leaves its loop by exhausting
\* maxIterations with stories remaining, also after passes that skipped a
\* story, it reports stoppedReason = "limit" and success = false.
C39_SyncStoppedReason ==
  syncLoop.pc = "returned" =>
    /\ syncLoop.loopResult.stoppedReason = "complete" => (prd.exists /\ Remaining(prd) = 0)
    /\ (SyncExhausted /\ prd.exists /\ Remaining(prd) > 0) =>
         /\ syncLoop.loopResult.stoppedReason = "limit"
         /\ ~syncLoop.loopResult.success

\* ---- C40
\* a step of the loop task of job j, and of no other task
OwnTaskStep(j) ==
  /\ task'[j] # task[j]
  /\ \A k \in DOMAIN task \ {j} : task'[k] = task[k]

\* an accepted cancel request for job j: the job was running, and its status
\* and completedAt are all that changes of it
AcceptedCancel(j) ==
  /\ cancelReply' = [jobId |-> j, error |-> "none"]
  /\ task' = task
  /\ activeJobs[j].status = "running"
  /\ activeJobs'[j] = [activeJobs[j] EXCEPT !.status = "cancelled", !.completedAt = TRUE]

\* a call of ralph_loop_cancel for a job id that is unknown or not running
CancelOfUnknownOrEnded ==
  /\ cancelReply' # cancelReply
  /\ \/ cancelReply'.jobId \notin DOMAIN activeJobs
     \/ activeJobs[cancelReply'.jobId].status # "running"

\* C40: a job's fields are changed only by the job's own loop task, except
\* that a cancel request sets status and completedAt of the job it names; a
\* cancel request for an unknown job or a job that is not running returns an
\* error and changes no job; and no operation on one job changes a field of
\* another job of the table.
C40_JobsChangeOnlyByOwnTaskOrCancel ==
  [][ /\ \A j \in DOMAIN activeJobs :
           activeJobs'[j] # activeJobs[j] =>
             /\ OwnTaskStep(j) \/ AcceptedCancel(j)
             /\ \A k \in DOMAIN activeJobs \ {j} : activeJobs'[k] = activeJobs[k]
      /\ CancelOfUnknownOrEnded =>
           /\ cancelReply'.error \in {"Job not found", "Job is not running"}
           /\ activeJobs' = activeJobs
    ]_vars

\* a second cancel request for a cancelled job was refused while the other
\* job went on to complete
C40_Witness ==
  \E j \in DOMAIN activeJobs, k \in DOMAIN activeJobs :
    /\ j # k
    /\ activeJobs[j].status = "cancelled"
    /\ cancelReply = [jobId |-> j, error |-> "Job is not running"]
    /\ activeJobs[k].status = "completed"
    /\ Len(activeJobs[k].results) > 0

====
